---- MODULE Spec2Model ----
(***************************************************************************)
(* Verification model of the All-Tickers bulk classification pipeline.     *)
(*                                                                         *)
(*   SpecSlow   Slow-Search.js : main() over the SQLite ledger             *)
(*              (ticker-database.js), with bulk-ticker-generator.js        *)
(*              pre-populating the ledger, signals and restarts.           *)
(*   SpecRetry  index.js : main() over the JSON files, with retries and    *)
(*              the pause/replay after ten failures in a row.              *)
(*   SpecGen    ticker-generator.js and ticker-validator.js : the table    *)
(*              of generated tickers and the validator that fills it in.   *)
(*   SpecEnum   the generateTicker functions of Slow-Search.js and of the  *)
(*              two index.js scripts, applied to one index.                *)
(*   SpecReval  revalidate-active.js and revalidate-inactive.js : passes   *)
(*              over the tickers table in batches and chunks.              *)
(*   SpecGather processAllActiveTickers : the active tickers fetched in    *)
(*              batches into ticker_data, with the session refresh.        *)
(*   SpecLedger validate-active.js and the writing methods of              *)
(*              TickerDatabase, with the database refusing writes.         *)
(*   SpecValidate  the checkTicker functions of Slow-Search.js, index.js   *)
(*              and validate-active.js on the provider's answers.          *)
(*   SpecBeyond the generateTicker functions applied to an index past the  *)
(*              end of the domain.                                         *)
(*   SpecDelisted  cleanup-backup/validate-delisted.js over the two JSON   *)
(*              lists, with interruptions.                                 *)
(*   SpecRetryFair, SpecSlowFair  the two runners with weak fairness on    *)
(*              the steps of main(), for termination.                      *)
(*                                                                         *)
(* The enumeration domain (475,254 symbols in the scripts) is cut to       *)
(* DomainSize symbols, and the batch sizes of the passes are scaled down.  *)
(***************************************************************************)
EXTENDS Integers, Sequences, FiniteSets, TLC

VARIABLES
    ledger,             \* output/tickers.db, table tickers: symbol -> row
    dbWritable,         \* whether the database file accepts writes (disk full, read-only)
    outages,            \* number of times the database stopped accepting writes
    checkpointFile,     \* output/checkpoint.json (NoCheckpoint: no file)
    pc,                 \* position of main(): idle, loop, upsert, save, final
    checkpoint,         \* main: const checkpoint = loadCheckpoint()
    startIndex,         \* main: let startIndex
    i,                  \* main: loop index
    processed,          \* main: let processed
    consecutiveErrors,  \* main: let consecutiveErrors
    result,             \* main: const result = await checkTicker(ticker)
    exitCode,           \* exit status of the last process (NULL: none yet)
    outcome,            \* how the last process ended
    runs,               \* number of processes started so far
    validated,          \* history: symbols whose row was written from a validation verdict
    activeFile,         \* output/active_tickers.json
    delistedFile,       \* output/delisted_tickers.json
    errorFile,          \* output/error_tickers.json (the set of tickers logged)
    activeTickers,      \* index.js main: array activeTickers
    delistedTickers,    \* index.js main: array delistedTickers
    retryIdx,           \* index.js main: replay loop index
    visited,            \* history: indices the current run has called the validator for
    failStreak,         \* history: validations failed in a row in the main loop of this run
    replaysInStreak,    \* history: pause/replay episodes since the last main-loop success
    providerUp,         \* whether the quote provider can be reached
    providerOutages,    \* number of times the provider became unreachable
    tickersTable,       \* tickers.db of the generator/validator pair: ticker -> row
    attemptedRows,      \* history: tickers the validator has attempted
    enumIndex,          \* the index handed to the enumerators
    enumSymbols,        \* script -> the symbol its generateTicker returned for enumIndex
    clock,              \* hours since the start (the database's 'now')
    revScript,          \* the revalidation script that is running, "none" when idle
    revPc,              \* where the revalidation pass is
    tickersToCheck,     \* the pass's list of tickers
    batchAt,            \* i of for (i = 0; i < tickersToCheck.length; i += batchSize)
    chunkAt,            \* offset of the current chunk in the batch
    inFlight,           \* tickers whose validateTicker promise is pending
    batchResults,       \* the results collected for the batch
    requestCount,       \* the pass's count of requests
    refreshes,          \* history: calls of refreshSession in the pass
    passes,             \* number of revalidation passes started
    tickerData,         \* ticker_data of the gather script: ticker -> last_updated
    ledgerCall,         \* history: the last TickerDatabase method that wrote, its arguments
    responses,          \* what the provider answers to the successive lookups of a symbol
    verdicts,           \* script -> what its validator returned for these answers
    existingActive,     \* validate-delisted.js: let existingActive
    nowActive,          \* validate-delisted.js: progress.nowActive
    stillDelisted,      \* validate-delisted.js: progress.stillDelisted
    originalDelisted,   \* history: the delisted list the run loaded at its start
    connection          \* validate-active.js: const db, "none", "open" or "closed"

\* the memory of the running process
volatile == <<checkpoint, startIndex, i, processed, consecutiveErrors, result>>
\* the files
disk == <<ledger, checkpointFile, validated>>
\* the environment
env == <<dbWritable, outages>>

vars == <<ledger, dbWritable, outages, checkpointFile, pc, checkpoint, startIndex,
          i, processed, consecutiveErrors, result, exitCode, outcome, runs, validated,
          activeFile, delistedFile, errorFile, activeTickers, delistedTickers,
          retryIdx, visited, failStreak, replaysInStreak, providerUp, providerOutages,
          tickersTable, attemptedRows, enumIndex, enumSymbols,
          clock, revScript, revPc, tickersToCheck, batchAt, chunkAt, inFlight,
          batchResults, requestCount, refreshes, passes, tickerData,
          ledgerCall, responses, verdicts,
          existingActive, nowActive, stillDelisted, originalDelisted, connection>>

\* the state of the file-based runner (index.js), which Slow-Search.js never touches
jsonRunner == <<activeFile, delistedFile, errorFile, activeTickers, delistedTickers,
                retryIdx, visited, failStreak, replaysInStreak>>
\* the state of the database runner, which index.js never touches
dbRunner == <<ledger, dbWritable, outages, validated>>
\* the reachability of the quote provider from the runner's host
provider == <<providerUp, providerOutages>>
\* the database of ticker-generator.js and ticker-validator.js
gen == <<tickersTable, attemptedRows>>
\* the inputs and outputs of the functions applied on their own
pureVars == <<enumIndex, enumSymbols>>
\* the state of a revalidation pass (revalidate-active, revalidate-inactive)
gather == <<tickerData>>

calls == <<ledgerCall>>

validator == <<responses, verdicts>>
\* the memory of a run of validate-delisted.js
delistedRun == <<existingActive, nowActive, stillDelisted, originalDelisted>>
\* the database connection of a run of validate-active.js
conn == <<connection>>

reval == <<clock, revScript, revPc, tickersToCheck, batchAt, chunkAt, inFlight,
           batchResults, requestCount, refreshes, passes>>

-----------------------------------------------------------------------------
(* Bounds of the model *)

\* number of enumerator indices the runner walks (the scripts walk 475,254)
DomainSize == 14
\* number of processes (first run, restarts, generator runs) a behaviour may start
MaxRuns == 3
\* number of times the database may stop accepting writes
MaxOutages == 1

-----------------------------------------------------------------------------
(* Values *)

\* SQL NULL / JS null or undefined; a present value v is <<v>>
NULL == <<>>
Some(v) == <<v>>

NoCheckpoint == [exists |-> FALSE]
NoResult == [pending |-> FALSE]

\* exchange names, as character sequences so that String.includes is computed
NYSE == <<"N", "Y", "S", "E">>
Nasdaq == <<"N", "a", "s", "d", "a", "q">>
AMEX == <<"A", "M", "E", "X">>
NasdaqGS == <<"N", "a", "s", "d", "a", "q", "G", "S">>
LSE == <<"L", "S", "E">>
Unknown == <<"U", "n", "k", "n", "o", "w", "n">>
EmptyString == <<>>

\* String.prototype.includes
includes(str, sub) ==
    \E k \in 0..(Len(str) - Len(sub)) : SubSeq(str, k + 1, k + Len(sub)) = sub

-----------------------------------------------------------------------------
(* Symbol enumerator *)

letters == <<"A", "B", "C", "D", "E", "F", "G", "H", "I", "J", "K", "L", "M",
             "N", "O", "P", "Q", "R", "S", "T", "U", "V", "W", "X", "Y", "Z">>

\* Slow-Search.js generateTicker(index)
generateTicker(index) ==
    IF index < 26 THEN
        letters[index + 1]
    ELSE IF index < 26 + 676 THEN
        LET adjusted == index - 26
            first == adjusted \div 26
            second == adjusted % 26
        IN  letters[first + 1] \o letters[second + 1]
    ELSE IF index < 26 + 676 + 17576 THEN
        LET adjusted == index - 26 - 676
            first == adjusted \div 676
            second == (adjusted % 676) \div 26
            third == adjusted % 26
        IN  letters[first + 1] \o letters[second + 1] \o letters[third + 1]
    ELSE IF index < 26 + 676 + 17576 + 456976 THEN
        LET adjusted == index - 26 - 676 - 17576
            first == adjusted \div 17576
            second == (adjusted % 17576) \div 676
            third == (adjusted % 676) \div 26
            fourth == adjusted % 26
        IN  letters[first + 1] \o letters[second + 1] \o letters[third + 1]
                \o letters[fourth + 1]
    ELSE ""

\* for (pos < length) { ticker = letters[temp % 26] + ticker; temp = floor(temp / 26) }
RECURSIVE prependDigits(_, _, _)
prependDigits(ticker, temp, positions) ==
    IF positions = 0 THEN ticker
    ELSE prependDigits(letters[(temp % 26) + 1] \o ticker, temp \div 26, positions - 1)

\* index.js generateTicker(index): for (len = 1..4) over the remaining index
RECURSIVE generateTickerFrom(_, _)
generateTickerFrom(len, remaining) ==
    IF len > 4 THEN ""
    ELSE IF remaining < 26 ^ len THEN prependDigits("", remaining, len)
    ELSE generateTickerFrom(len + 1, remaining - 26 ^ len)

generateTickerByLength(index) == generateTickerFrom(1, index)

\* main: const totalTickers = calculateTotalTickers(), cut to the model's domain
totalTickers == DomainSize

Indices == 0..(totalTickers - 1)

-----------------------------------------------------------------------------
(* The market-data provider: a stub with one response per symbol, covering   *)
(* each class of response yahooFinance.quote can give.                       *)

QuoteResponse(sym, full, price) ==
    [kind |-> "quote", symbol |-> sym, fullExchangeName |-> full,
     exchange |-> NULL, regularMarketPrice |-> price]
ErrorResponse(k) ==
    [kind |-> k, symbol |-> FALSE, fullExchangeName |-> NULL,
     exchange |-> NULL, regularMarketPrice |-> NULL]

\* yahooFinance.quote(generateTicker(index))
yahooQuote(index) ==
    CASE index % 6 = 0 -> QuoteResponse(TRUE, Some(NasdaqGS), Some(100))
      [] index % 6 = 1 -> QuoteResponse(TRUE, Some(NYSE), Some(55))
      [] index % 6 = 2 -> QuoteResponse(TRUE, Some(NYSE), NULL)
      [] index % 6 = 3 -> ErrorResponse("schemaUnion")   \* "... Expected union value ..."
      [] index % 6 = 4 -> ErrorResponse("network")  \* timeout, ECONNRESET, HTTP 5xx
      [] OTHER         -> QuoteResponse(TRUE, Some(LSE), Some(10))

\* a || b on optional strings: the empty string is falsy
OrElse(a, b) == IF a /= NULL /\ a /= Some(EmptyString) THEN a ELSE b

\* Slow-Search.js checkTicker(ticker), as a function of the provider's response
checkTicker(resp) ==
    IF resp.kind = "quote" THEN
        IF resp.symbol THEN
            LET exch == OrElse(resp.fullExchangeName,
                               OrElse(resp.exchange, Some(EmptyString)))[1]
                isUS == includes(exch, NYSE) \/ includes(exch, Nasdaq)
                            \/ includes(exch, AMEX)
            IN  IF isUS /\ resp.regularMarketPrice /= NULL THEN
                    [pending |-> TRUE, isActive |-> TRUE,
                     price |-> resp.regularMarketPrice, exchange |-> Some(exch)]
                ELSE IF isUS THEN
                    [pending |-> TRUE, isActive |-> FALSE, price |-> NULL,
                     exchange |-> Some(exch)]
                ELSE
                    [pending |-> TRUE, isActive |-> FALSE, price |-> NULL,
                     exchange |-> Some(exch)]
        ELSE
            [pending |-> TRUE, isActive |-> FALSE, price |-> NULL, exchange |-> NULL]
    ELSE
        \* catch (error): schema validation errors and every other error alike
        [pending |-> TRUE, isActive |-> FALSE, price |-> NULL, exchange |-> NULL]

-----------------------------------------------------------------------------
(* ticker-database.js *)

Details(price, exchange) == [price |-> price, currency |-> NULL, exchange |-> exchange]

\* INSERT OR IGNORE: a row that exists is left as it is
insertOrIgnoreTicker(db, symbol, status, details) ==
    LET row == [status |-> status,
                price |-> details.price,
                currency |-> IF details.currency = NULL THEN Some("USD")
                             ELSE details.currency,
                exchange |-> details.exchange]
    IN  [s \in (DOMAIN db) \cup {symbol} |-> IF s \in DOMAIN db THEN db[s] ELSE row]

\* TickerDatabase.upsertTicker(symbol, status, details)
upsertTicker(db, symbol, status, details) ==
    LET row == [status |-> status,
                price |-> details.price,
                currency |-> IF details.currency = NULL THEN Some("USD")
                             ELSE details.currency,
                exchange |-> details.exchange]
    IN  [s \in (DOMAIN db) \cup {symbol} |-> IF s = symbol THEN row ELSE db[s]]

\* UPDATE tickers SET status = ?: the price and the exchange are left as they are
moveStatusOnly(db, symbol, newStatus, details) ==
    [s \in DOMAIN db |-> IF s = symbol THEN [db[s] EXCEPT !.status = newStatus] ELSE db[s]]

\* TickerDatabase.moveTickerToStatus(symbol, newStatus, details)
moveTickerToStatus(db, symbol, newStatus, details) ==
    [s \in DOMAIN db |->
        IF s = symbol
        THEN [db[s] EXCEPT !.status = newStatus, !.price = details.price,
                           !.exchange = details.exchange]
        ELSE db[s]]

\* TickerDatabase.clearAll()
clearAll(db) == [s \in {} |-> NULL]

\* the record of a call of a writing method; before is the row it found
Call(op, db, symbol, status, details) ==
    [op |-> op, symbol |-> symbol, status |-> status, details |-> details,
     before |-> IF symbol \in DOMAIN db THEN Some(db[symbol]) ELSE NULL]

NoCall == [op |-> "none", symbol |-> "", status |-> "",
           details |-> [price |-> NULL, currency |-> NULL, exchange |-> NULL],
           before |-> NULL]

\* TickerDatabase.getTickersByStatus(status) (as the set of its symbols)
getTickersByStatus(db, status) == {s \in DOMAIN db : db[s].status = status}

\* TickerDatabase.getTickerDetails(symbol)
getTickerDetails(db, symbol) == IF symbol \in DOMAIN db THEN Some(db[symbol]) ELSE NULL

\* TickerDatabase.getStats()
getStats(db) ==
    [total |-> Cardinality(DOMAIN db),
     active |-> Cardinality(getTickersByStatus(db, "active")),
     delisted |-> Cardinality(getTickersByStatus(db, "delisted"))]

EmptyDb == [s \in {} |-> NULL]

-----------------------------------------------------------------------------
(* bulk-ticker-generator.js *)

\* BulkTickerGenerator.generateTickersOfLength(length), i-th element
generateTickersOfLength(length, n) == prependDigits("", n, length)

\* a bulk insert that writes every ticker as delisted, whether it exists or not
bulkOverwriteTickers(db, tickers) ==
    [s \in (DOMAIN db) \cup tickers |->
        IF s \in tickers THEN upsertTicker(db, s, "delisted", Details(NULL, NULL))[s]
        ELSE db[s]]

\* BulkTickerGenerator.bulkInsertTickers(tickers), tickers given as a set
bulkInsertTickers(db, tickers) ==
    [s \in (DOMAIN db) \cup tickers |->
        IF getTickerDetails(db, s) /= NULL THEN db[s]
        ELSE upsertTicker(db, s, "delisted", Details(NULL, NULL))[s]]

\* BulkTickerGenerator.generateAllTickers(maxLength), cut to the model's domain
\* (the first DomainSize symbols, all of length 1)
generateAllTickers == {generateTickersOfLength(1, n) : n \in Indices}

-----------------------------------------------------------------------------
(* Slow-Search.js: checkpoint file *)

\* saveCheckpoint(currentIndex, total, processed, activeCount, delistedCount)
saveCheckpoint(currentIndex, total, proc, activeCount, delistedCount) ==
    [exists |-> TRUE,
     currentIndex |-> currentIndex,
     total |-> total,
     processed |-> proc,
     activeTickers |-> activeCount,
     delistedTickers |-> delistedCount,
     lastProcessedTicker |-> IF currentIndex > 0
                             THEN Some(generateTicker(currentIndex - 1)) ELSE NULL]

\* a startup that never takes the early return
NeverComplete(ck) == FALSE

\* main: the early return when the checkpoint says everything was processed
AlreadyComplete(ck) ==
    /\ ck /= NoCheckpoint
    /\ ck.processed >= ck.total          \* actualProgress >= 1.0
    /\ ck.currentIndex >= totalTickers

\* a resume that ignores the checkpoint's index
ResumeIndexFromZero(ck) == 0

\* main: startIndex after the checkpoint was looked at
ResumeIndex(ck) ==
    IF ck = NoCheckpoint THEN 0
    ELSE IF ck.currentIndex >= totalTickers THEN 0
    ELSE ck.currentIndex

\* main: const alreadyProcessed = activeTickers.includes(ticker) || delistedTickers.includes(ticker)
alreadyProcessed(db, ticker) ==
    ticker \in getTickersByStatus(db, "active")
        \/ ticker \in getTickersByStatus(db, "delisted")

maxConsecutiveErrors == 10
SaveEvery == 10

Running == {"loop", "upsert", "save", "stopped", "final"}

\* the process is gone: its memory with it
ProcessEnds(how, code) ==
    /\ pc' = "idle"
    /\ outcome' = how
    /\ exitCode' = Some(code)
    /\ checkpoint' = NoCheckpoint
    /\ startIndex' = 0
    /\ i' = 0
    /\ processed' = 0
    /\ consecutiveErrors' = 0
    /\ result' = NoResult

-----------------------------------------------------------------------------
(* Slow-Search.js: main() *)

\* node Slow-Search.js: db.init(), loadCheckpoint(), getStats(), start of the loop
SlowStart ==
    /\ UNCHANGED <<jsonRunner, provider, gen, pureVars, reval, gather, calls, validator, delistedRun, conn>>
    /\ pc = "idle"
    /\ runs < MaxRuns
    /\ runs' = runs + 1
    /\ IF AlreadyComplete(checkpointFile)
       THEN ProcessEnds("alreadyComplete", 0)
       ELSE /\ pc' = "loop"
            /\ UNCHANGED <<outcome, exitCode>>
            /\ checkpoint' = checkpointFile
            /\ processed' = getStats(ledger).total
            /\ consecutiveErrors' = 0
            /\ result' = NoResult
            /\ startIndex' = ResumeIndex(checkpointFile)
            /\ i' = ResumeIndex(checkpointFile)
    /\ UNCHANGED <<disk, env>>

\* for (...; i < totalTickers; ...) is over
SlowLoopExit ==
    /\ UNCHANGED <<jsonRunner, provider, gen, pureVars, reval, gather, calls, validator, delistedRun, conn>>
    /\ pc = "loop"
    /\ i >= totalTickers
    /\ pc' = "final"
    /\ UNCHANGED <<disk, env, volatile, exitCode, outcome, runs>>

\* if (alreadyProcessed) continue
SlowSkip ==
    /\ UNCHANGED <<jsonRunner, provider, gen, pureVars, reval, gather, calls, validator, delistedRun, conn>>
    /\ pc = "loop"
    /\ i < totalTickers
    /\ alreadyProcessed(ledger, generateTicker(i))
    /\ i' = i + 1
    /\ UNCHANGED <<disk, env, pc, checkpoint, startIndex, processed,
                   consecutiveErrors, result, exitCode, outcome, runs>>

\* const result = await checkTicker(ticker)
SlowCheck ==
    /\ UNCHANGED <<jsonRunner, provider, gen, pureVars, reval, gather, calls, validator, delistedRun, conn>>
    /\ pc = "loop"
    /\ i < totalTickers
    /\ ~alreadyProcessed(ledger, generateTicker(i))
    /\ result' = checkTicker(yahooQuote(i))
    /\ pc' = "upsert"
    /\ UNCHANGED <<disk, env, checkpoint, startIndex, i, processed,
                   consecutiveErrors, exitCode, outcome, runs>>

\* main: the row the loop body writes for a result
VerdictLedger(db, ticker, res) ==
    IF res.isActive
    THEN upsertTicker(db, ticker, "active", Details(res.price, res.exchange))
    ELSE upsertTicker(db, ticker, "delisted",
                      Details(NULL, OrElse(res.exchange, Some(Unknown))))

\* await db.upsertTicker(...); processed++; consecutiveErrors = 0
SlowUpsert ==
    /\ UNCHANGED <<jsonRunner, provider, gen, pureVars, reval, gather, calls, validator, delistedRun, conn>>
    /\ pc = "upsert"
    /\ dbWritable
    /\ ledger' = VerdictLedger(ledger, generateTicker(i), result)
    /\ validated' = validated \cup {generateTicker(i)}
    /\ processed' = processed + 1
    /\ consecutiveErrors' = 0
    /\ result' = NoResult
    /\ IF (processed + 1) % SaveEvery = 0
       THEN pc' = "save" /\ i' = i
       ELSE pc' = "loop" /\ i' = i + 1
    /\ UNCHANGED <<env, checkpointFile, checkpoint, startIndex, exitCode, outcome, runs>>

\* db.upsertTicker rejects (storage error): catch (error) of the loop body
SlowUpsertFails ==
    /\ UNCHANGED <<jsonRunner, provider, gen, pureVars, reval, gather, calls, validator, delistedRun, conn>>
    /\ pc = "upsert"
    /\ ~dbWritable
    /\ consecutiveErrors' = consecutiveErrors + 1
    /\ result' = NoResult
    /\ IF consecutiveErrors + 1 >= maxConsecutiveErrors
       THEN /\ checkpointFile' = saveCheckpoint(i, totalTickers, processed,
                                                getStats(ledger).active,
                                                getStats(ledger).delisted)
            /\ pc' = "stopped"          \* break
            /\ i' = i
       ELSE /\ pc' = "loop"
            /\ i' = i + 1
            /\ UNCHANGED checkpointFile
    /\ UNCHANGED <<ledger, validated, env, checkpoint, startIndex, processed,
                   exitCode, outcome, runs>>

\* if (processed % 10 === 0) { exportToJSON(); saveCheckpoint(i + 1, ...) }
SlowSave ==
    /\ UNCHANGED <<jsonRunner, provider, gen, pureVars, reval, gather, calls, validator, delistedRun, conn>>
    /\ pc = "save"
    /\ checkpointFile' = saveCheckpoint(i + 1, totalTickers, processed,
                                        getStats(ledger).active,
                                        getStats(ledger).delisted)
    /\ pc' = "loop"
    /\ i' = i + 1
    /\ UNCHANGED <<ledger, validated, env, checkpoint, startIndex, processed,
                   consecutiveErrors, result, exitCode, outcome, runs>>

\* "Final save" after the loop; "process completed!"; main returns, exit status 0
SlowFinal ==
    /\ UNCHANGED <<jsonRunner, provider, gen, pureVars, reval, gather, calls, validator, delistedRun, conn>>
    /\ pc \in {"final", "stopped"}
    /\ checkpointFile' = saveCheckpoint(totalTickers, totalTickers, processed,
                                        getStats(ledger).active,
                                        getStats(ledger).delisted)
    /\ ProcessEnds("completed", 0)
    /\ UNCHANGED <<ledger, validated, env, runs>>

\* process.on('SIGINT' / 'SIGTERM'): await db.close(); process.exit(0)
SlowSignal ==
    /\ UNCHANGED <<jsonRunner, provider, gen, pureVars, reval, gather, calls, validator, delistedRun, conn>>
    /\ pc \in Running
    /\ ProcessEnds("signal", 0)
    /\ UNCHANGED <<disk, env, runs>>

\* the process is killed (crash, power loss): only the files survive
SlowCrash ==
    /\ UNCHANGED <<jsonRunner, provider, gen, pureVars, reval, gather, calls, validator, delistedRun, conn>>
    /\ pc \in Running
    /\ ProcessEnds("crash", 137)
    /\ UNCHANGED <<disk, env, runs>>

\* node bulk-ticker-generator.js, run while no validation process is running
BulkGenerate ==
    /\ UNCHANGED <<jsonRunner, provider, gen, pureVars, reval, gather, calls, validator, delistedRun, conn>>
    /\ pc = "idle"
    /\ runs < MaxRuns
    /\ dbWritable
    /\ runs' = runs + 1
    /\ ledger' = bulkInsertTickers(ledger, generateAllTickers)
    /\ UNCHANGED <<env, checkpointFile, validated, pc, volatile, exitCode, outcome>>

\* the database file stops accepting writes
DbStopsWrites ==
    /\ UNCHANGED <<jsonRunner, provider, gen, pureVars, reval, gather, calls, validator, delistedRun, conn>>
    /\ dbWritable
    /\ outages < MaxOutages
    /\ dbWritable' = FALSE
    /\ outages' = outages + 1
    /\ UNCHANGED <<disk, pc, volatile, exitCode, outcome, runs>>

\* the database file accepts writes again
DbResumesWrites ==
    /\ UNCHANGED <<jsonRunner, provider, gen, pureVars, reval, gather, calls, validator, delistedRun, conn>>
    /\ ~dbWritable
    /\ dbWritable' = TRUE
    /\ UNCHANGED <<disk, outages, pc, volatile, exitCode, outcome, runs>>

\* nothing has run yet: empty database, no files, no process
InitStores ==
    /\ connection = "none"
    /\ existingActive = <<>>
    /\ nowActive = <<>>
    /\ stillDelisted = <<>>
    /\ originalDelisted = <<>>
    /\ responses = <<>>
    /\ verdicts = <<>>
    /\ tickerData = <<>>
    /\ ledgerCall = NoCall
    /\ ledger = EmptyDb
    /\ dbWritable = TRUE
    /\ outages = 0
    /\ checkpointFile = NoCheckpoint
    /\ pc = "idle"
    /\ checkpoint = NoCheckpoint
    /\ startIndex = 0
    /\ i = 0
    /\ processed = 0
    /\ consecutiveErrors = 0
    /\ result = NoResult
    /\ exitCode = NULL
    /\ outcome = "none"
    /\ runs = 0
    /\ validated = {}
    /\ errorFile = {}
    /\ activeTickers = <<>>
    /\ delistedTickers = <<>>
    /\ retryIdx = 0
    /\ visited = {}
    /\ failStreak = 0
    /\ replaysInStreak = 0
    /\ providerUp = TRUE
    /\ providerOutages = 0
    /\ attemptedRows = {}
    /\ clock = 0
    /\ revScript = "none"
    /\ revPc = "idle"
    /\ tickersToCheck = <<>>
    /\ batchAt = 0
    /\ chunkAt = 0
    /\ inFlight = {}
    /\ batchResults = <<>>
    /\ requestCount = 0
    /\ refreshes = 0
    /\ passes = 0

Init ==
    /\ InitStores
    /\ activeFile = <<>>
    /\ delistedFile = <<>>
    /\ tickersTable = <<>>
    /\ enumIndex = 0
    /\ enumSymbols = <<>>

SlowNext ==
    \/ SlowStart
    \/ SlowLoopExit
    \/ SlowSkip
    \/ SlowCheck
    \/ SlowUpsert
    \/ SlowUpsertFails
    \/ SlowSave
    \/ SlowFinal
    \/ SlowSignal
    \/ SlowCrash
    \/ BulkGenerate
    \/ DbStopsWrites
    \/ DbResumesWrites

SpecSlow == Init /\ [][SlowNext]_vars

-----------------------------------------------------------------------------
(* Properties of Slow-Search.js *)

\* C3: a run restarted on a checkpoint with currentIndex = k (k < total) starts
\* its walk at index k and calls the validator for no index below k that has a
\* ledger row.
ResumeContinuesFromCheckpoint ==
    (pc \in Running /\ checkpoint /= NoCheckpoint
        /\ checkpoint.currentIndex < totalTickers)
    => /\ startIndex = checkpoint.currentIndex
       /\ i >= checkpoint.currentIndex
       /\ (pc = "upsert" =>
             ~(i < checkpoint.currentIndex /\ generateTicker(i) \in DOMAIN ledger))

\* C3 witness: after a crash, the restarted run has loaded a checkpoint with
\* 0 < k < total, rows exist below k, and it is validating index k.
ResumeWitness ==
    /\ outcome = "crash"
    /\ pc = "upsert"
    /\ checkpoint /= NoCheckpoint
    /\ checkpoint.currentIndex \in 1..(totalTickers - 1)
    /\ i = checkpoint.currentIndex
    /\ \E idx \in 0..(checkpoint.currentIndex - 1) : generateTicker(idx) \in DOMAIN ledger

\* C4: while the validation in flight ended in a transport-level failure, no
\* step writes the ledger (the symbol is not recorded, in particular not as
\* delisted).
TransportFailureNotRecorded ==
    [][(pc = "upsert" /\ yahooQuote(i).kind = "network") => ledger' = ledger]_vars

\* C5: the step that handles SIGINT/SIGTERM leaves a checkpoint on disk whose
\* currentIndex is the progress made so far.
\* (a run that has made no progress yet may leave no checkpoint: absence means
\* "start fresh")
ProgressIndex == IF pc = "save" THEN i + 1 ELSE i

IndexOnDisk(file) == IF file = NoCheckpoint THEN 0 ELSE file.currentIndex

SignalFlushesCheckpoint ==
    [][SlowSignal => IndexOnDisk(checkpointFile') = ProgressIndex]_vars

\* C7: when the run was stopped by the consecutive-error threshold, the
\* checkpoint on disk at process exit has currentIndex = the index at which the
\* run stopped.
FatalStopCheckpointAtStopIndex ==
    [][(pc = "stopped" /\ SlowFinal) => checkpointFile'.currentIndex = i]_vars

\* C9: the skip check skips only symbols whose row came from a validation.
SkipsOnlyValidated ==
    [][SlowSkip => generateTicker(i) \in validated]_vars

-----------------------------------------------------------------------------
(* index.js, the file-based runner with retries and pause/replay             *)

maxRetries == 3
ReplaySpan == 10

\* how the provider behaves during one validation of a symbol
ModesWhenUp == {"answers", "failsOnce"}
ProviderModes == IF providerUp THEN ModesWhenUp ELSE {"down"}

\* the n-th yahooFinance.quote(ticker) of a validation
lookup(mode, index, n) ==
    IF mode = "down" \/ (mode = "failsOnce" /\ n = 1) THEN ErrorResponse("network")
    ELSE yahooQuote(index)

\* index.js checkTicker(ticker): for (attempt = 1; attempt <= 3; attempt++);
\* n lookups were made before
RECURSIVE checkTickerAttempt(_, _, _, _)
checkTickerAttempt(mode, index, n, attempt) ==
    IF attempt > 3 THEN
        \* three validation errors: addErrorTicker, return { isActive: false }
        [thrown |-> FALSE, error |-> "none", isActive |-> FALSE, lookups |-> n,
         logged |-> TRUE]
    ELSE
        LET quote == lookup(mode, index, n + 1)
        IN  IF quote.kind = "quote" THEN
                [thrown |-> FALSE, error |-> "none", isActive |-> quote.symbol,
                 lookups |-> n + 1, logged |-> FALSE]
            ELSE IF quote.kind = "schemaUnion" THEN
                checkTickerAttempt(mode, index, n + 1, attempt + 1)
            ELSE
                [thrown |-> TRUE, error |-> quote.kind, isActive |-> FALSE,
                 lookups |-> n + 1, logged |-> FALSE]

\* index.js main: while (attempt < maxRetries) { try { result = await checkTicker } ... }
RECURSIVE validateWithRetries(_, _, _, _)
validateWithRetries(mode, index, n, attempt) ==
    IF attempt >= maxRetries THEN
        [ok |-> FALSE, isActive |-> FALSE, lookups |-> n, logged |-> FALSE]
    ELSE
        LET r == checkTickerAttempt(mode, index, n, 1)
        IN  IF r.thrown
            THEN LET next == validateWithRetries(mode, index, r.lookups, attempt + 1)
                 IN  IF next.ok THEN next
                     ELSE [next EXCEPT !.logged =
                              r.error \in {"schemaUnion", "schemaFailed"}]
            ELSE [ok |-> TRUE, isActive |-> r.isActive, lookups |-> r.lookups,
                  logged |-> r.logged]

Elems(seq) == {seq[k] : k \in 1..Len(seq)}

\* index.js main: activeTickers.includes(ticker) || delistedTickers.includes(ticker)
inArrays(ticker) == ticker \in Elems(activeTickers) \/ ticker \in Elems(delistedTickers)

\* the ledger of the file-based runner: what the two JSON files hold
inFiles(ticker) == ticker \in Elems(activeFile) \/ ticker \in Elems(delistedFile)

\* index.js saveCheckpoint(currentIndex, total, processed, activeTickers, delistedTickers)
saveCheckpointOfArrays(currentIndex, total, proc, active, delisted) ==
    [exists |-> TRUE,
     currentIndex |-> currentIndex,
     total |-> total,
     processed |-> proc,
     activeTickers |-> Len(active),
     delistedTickers |-> Len(delisted),
     lastProcessedTicker |-> IF currentIndex > 0
                             THEN Some(generateTickerByLength(currentIndex - 1)) ELSE NULL]

\* index.js main: const retryStart = Math.max(i - 10, 0)
retryStart(idx) == IF idx - ReplaySpan > 0 THEN idx - ReplaySpan ELSE 0

\* a replay that would leave the counter as it was
ErrorsKept(errors) == errors

\* index.js main: consecutiveErrors after the replay
ErrorsAfterReplay(errors) == 0

\* a main loop that goes back to the first replayed index after the replay
indexAtReplayStart(idx) == retryStart(idx)

\* index.js main: the loop index after the replay (continue, then i++)
indexAfterReplay(idx) == idx + 1

JsonRunning == {"loop", "saveData", "saveCheckpoint", "replay", "final"}

JsonProcessEnds(how, code) ==
    /\ ProcessEnds(how, code)
    /\ activeTickers' = <<>>
    /\ delistedTickers' = <<>>
    /\ retryIdx' = 0
    /\ visited' = {}
    /\ failStreak' = 0
    /\ replaysInStreak' = 0

\* node index.js: loadCheckpoint(), loadExistingData(), start of the loop
RetryStart ==
    /\ UNCHANGED <<dbRunner, provider, gen, pureVars, reval, gather, calls, validator, delistedRun, conn>>
    /\ pc = "idle"
    /\ runs < MaxRuns
    /\ runs' = runs + 1
    /\ IF AlreadyComplete(checkpointFile)
       THEN JsonProcessEnds("alreadyComplete", 0)
       ELSE /\ pc' = "loop"
            /\ UNCHANGED <<outcome, exitCode, result>>
            /\ checkpoint' = checkpointFile
            /\ activeTickers' = activeFile
            /\ delistedTickers' = delistedFile
            /\ processed' = Len(activeFile) + Len(delistedFile)
            /\ consecutiveErrors' = 0
            /\ startIndex' = ResumeIndex(checkpointFile)
            /\ i' = ResumeIndex(checkpointFile)
            /\ retryIdx' = 0
            /\ visited' = {}
            /\ failStreak' = 0
            /\ replaysInStreak' = 0
    /\ UNCHANGED <<checkpointFile, activeFile, delistedFile, errorFile>>

\* for (...; i < totalTickers; ...) is over
RetryLoopExit ==
    /\ UNCHANGED <<dbRunner, provider, gen, pureVars, reval, gather, calls, validator, delistedRun, conn>>
    /\ pc = "loop"
    /\ i >= totalTickers
    /\ pc' = "final"
    /\ UNCHANGED <<jsonRunner, checkpointFile, volatile, exitCode, outcome, runs>>

\* if (alreadyProcessed) continue
RetrySkip ==
    /\ UNCHANGED <<dbRunner, provider, gen, pureVars, reval, gather, calls, validator, delistedRun, conn>>
    /\ pc = "loop"
    /\ i < totalTickers
    /\ inArrays(generateTickerByLength(i))
    /\ i' = i + 1
    /\ UNCHANGED <<jsonRunner, checkpointFile, pc, checkpoint, startIndex, processed,
                   consecutiveErrors, result, exitCode, outcome, runs>>

\* the validation gave a result: push, processed++, consecutiveErrors = 0
RetryValidate ==
    /\ UNCHANGED <<dbRunner, provider, gen, pureVars, reval, gather, calls, validator, delistedRun, conn>>
    /\ pc = "loop"
    /\ i < totalTickers
    /\ ~inArrays(generateTickerByLength(i))
    /\ \E mode \in ProviderModes :
         LET v == validateWithRetries(mode, i, 0, 0)
             ticker == generateTickerByLength(i)
         IN  /\ v.ok
             /\ activeTickers' = IF v.isActive THEN Append(activeTickers, ticker)
                                 ELSE activeTickers
             /\ delistedTickers' = IF v.isActive THEN delistedTickers
                                   ELSE Append(delistedTickers, ticker)
             /\ errorFile' = IF v.logged THEN errorFile \cup {ticker} ELSE errorFile
    /\ visited' = visited \cup {i}
    /\ processed' = processed + 1
    /\ consecutiveErrors' = 0
    /\ failStreak' = 0
    /\ replaysInStreak' = 0
    /\ IF (processed + 1) % SaveEvery = 0
       THEN pc' = "saveData" /\ i' = i
       ELSE pc' = "loop" /\ i' = i + 1
    /\ UNCHANGED <<checkpointFile, activeFile, delistedFile, retryIdx, checkpoint,
                   startIndex, result, exitCode, outcome, runs>>

\* if (!result): consecutiveErrors++, and at the threshold save, pause and replay
RetryValidateFails ==
    /\ UNCHANGED <<dbRunner, provider, gen, pureVars, reval, gather, calls, validator, delistedRun, conn>>
    /\ pc = "loop"
    /\ i < totalTickers
    /\ ~inArrays(generateTickerByLength(i))
    /\ \E mode \in ProviderModes :
         LET v == validateWithRetries(mode, i, 0, 0)
         IN  /\ ~v.ok
             /\ errorFile' = IF v.logged
                             THEN errorFile \cup {generateTickerByLength(i)}
                             ELSE errorFile
    /\ visited' = visited \cup {i}
    /\ consecutiveErrors' = consecutiveErrors + 1
    /\ failStreak' = failStreak + 1
    /\ IF consecutiveErrors + 1 >= maxConsecutiveErrors
       THEN /\ activeFile' = activeTickers                \* saveData
            /\ delistedFile' = delistedTickers
            /\ checkpointFile' = saveCheckpointOfArrays(i, totalTickers, processed,
                                                        activeTickers, delistedTickers)
            /\ pc' = "replay"                             \* after sleep(60000)
            /\ retryIdx' = retryStart(i)
            /\ replaysInStreak' = replaysInStreak + 1
            /\ i' = i
       ELSE /\ pc' = "loop"
            /\ i' = i + 1
            /\ UNCHANGED <<activeFile, delistedFile, checkpointFile, retryIdx,
                           replaysInStreak>>
    /\ UNCHANGED <<activeTickers, delistedTickers, checkpoint, startIndex, processed,
                   result, exitCode, outcome, runs>>

\* replay: if (activeTickers.includes(retryTicker) || ...) continue
RetryReplaySkip ==
    /\ UNCHANGED <<dbRunner, provider, gen, pureVars, reval, gather, calls, validator, delistedRun, conn>>
    /\ pc = "replay"
    /\ retryIdx < i
    /\ inArrays(generateTickerByLength(retryIdx))
    /\ retryIdx' = retryIdx + 1
    /\ UNCHANGED <<activeFile, delistedFile, errorFile, activeTickers, delistedTickers,
                   visited, failStreak, replaysInStreak, checkpointFile, pc, volatile,
                   exitCode, outcome, runs>>

\* replay: validate retryTicker again and push it when there is a result
RetryReplayValidate ==
    /\ UNCHANGED <<dbRunner, provider, gen, pureVars, reval, gather, calls, validator, delistedRun, conn>>
    /\ pc = "replay"
    /\ retryIdx < i
    /\ ~inArrays(generateTickerByLength(retryIdx))
    /\ \E mode \in ProviderModes :
         LET v == validateWithRetries(mode, retryIdx, 0, 0)
             ticker == generateTickerByLength(retryIdx)
         IN  /\ activeTickers' = IF v.ok /\ v.isActive THEN Append(activeTickers, ticker)
                                 ELSE activeTickers
             /\ delistedTickers' = IF v.ok /\ ~v.isActive
                                   THEN Append(delistedTickers, ticker)
                                   ELSE delistedTickers
             /\ errorFile' = IF v.logged THEN errorFile \cup {ticker} ELSE errorFile
    /\ visited' = visited \cup {retryIdx}
    /\ retryIdx' = retryIdx + 1
    /\ UNCHANGED <<activeFile, delistedFile, failStreak, replaysInStreak, checkpointFile,
                   pc, volatile, exitCode, outcome, runs>>

\* replay over: consecutiveErrors = 0; continue
RetryReplayDone ==
    /\ UNCHANGED <<dbRunner, provider, gen, pureVars, reval, gather, calls, validator, delistedRun, conn>>
    /\ pc = "replay"
    /\ retryIdx >= i
    /\ consecutiveErrors' = ErrorsAfterReplay(consecutiveErrors)
    /\ i' = indexAfterReplay(i)
    /\ pc' = "loop"
    /\ UNCHANGED <<jsonRunner, checkpointFile, checkpoint, startIndex, processed,
                   result, exitCode, outcome, runs>>

\* if (processed % 10 === 0) saveData(activeTickers, delistedTickers)
RetrySaveData ==
    /\ UNCHANGED <<dbRunner, provider, gen, pureVars, reval, gather, calls, validator, delistedRun, conn>>
    /\ pc = "saveData"
    /\ activeFile' = activeTickers
    /\ delistedFile' = delistedTickers
    /\ pc' = "saveCheckpoint"
    /\ UNCHANGED <<errorFile, activeTickers, delistedTickers, retryIdx, visited,
                   failStreak, replaysInStreak, checkpointFile, volatile, exitCode,
                   outcome, runs>>

\* ... saveCheckpoint(i + 1, ...)
RetrySaveCheckpoint ==
    /\ UNCHANGED <<dbRunner, provider, gen, pureVars, reval, gather, calls, validator, delistedRun, conn>>
    /\ pc = "saveCheckpoint"
    /\ checkpointFile' = saveCheckpointOfArrays(i + 1, totalTickers, processed,
                                                activeTickers, delistedTickers)
    /\ pc' = "loop"
    /\ i' = i + 1
    /\ UNCHANGED <<jsonRunner, checkpoint, startIndex, processed, consecutiveErrors,
                   result, exitCode, outcome, runs>>

\* "Final save" after the loop; "process completed!"; main returns, exit status 0
RetryFinal ==
    /\ UNCHANGED <<dbRunner, provider, gen, pureVars, reval, gather, calls, validator, delistedRun, conn>>
    /\ pc = "final"
    /\ activeFile' = activeTickers
    /\ delistedFile' = delistedTickers
    /\ checkpointFile' = saveCheckpointOfArrays(totalTickers, totalTickers, processed,
                                                activeTickers, delistedTickers)
    /\ JsonProcessEnds("completed", 0)
    /\ UNCHANGED <<errorFile, runs>>

\* process.on('SIGINT' / 'SIGTERM'): process.exit(0), taken between awaits
RetrySignal ==
    /\ UNCHANGED <<dbRunner, provider, gen, pureVars, reval, gather, calls, validator, delistedRun, conn>>
    /\ pc \in {"loop", "replay"}
    /\ JsonProcessEnds("signal", 0)
    /\ UNCHANGED <<checkpointFile, activeFile, delistedFile, errorFile, runs>>

\* the process is killed (crash, power loss): only the files survive
RetryCrash ==
    /\ UNCHANGED <<dbRunner, provider, gen, pureVars, reval, gather, calls, validator, delistedRun, conn>>
    /\ pc \in JsonRunning
    /\ JsonProcessEnds("crash", 137)
    /\ UNCHANGED <<checkpointFile, activeFile, delistedFile, errorFile, runs>>

\* the provider becomes unreachable (network down, rate limit)
ProviderGoesDown ==
    /\ pc \in {"loop", "replay"}
    /\ providerUp
    /\ providerOutages < MaxOutages
    /\ providerUp' = FALSE
    /\ providerOutages' = providerOutages + 1
    /\ UNCHANGED <<dbRunner, jsonRunner, gen, pureVars, reval, gather, calls, validator, delistedRun, conn,
                   checkpointFile, pc, volatile, exitCode, outcome, runs>>

\* the provider is reachable again
ProviderComesBack ==
    /\ pc \in {"loop", "replay"}
    /\ ~providerUp
    /\ providerUp' = TRUE
    /\ UNCHANGED <<dbRunner, jsonRunner, gen, pureVars, reval, gather, calls, validator, delistedRun, conn,
                   providerOutages, checkpointFile, pc, volatile, exitCode, outcome,
                   runs>>

RetryNext ==
    \/ RetryStart
    \/ RetryLoopExit
    \/ RetrySkip
    \/ RetryValidate
    \/ RetryValidateFails
    \/ RetryReplaySkip
    \/ RetryReplayValidate
    \/ RetryReplayDone
    \/ RetrySaveData
    \/ RetrySaveCheckpoint
    \/ RetryFinal
    \/ RetrySignal
    \/ RetryCrash
    \/ ProviderGoesDown
    \/ ProviderComesBack

SpecRetry == Init /\ [][RetryNext]_vars

-----------------------------------------------------------------------------
(* ticker-generator.js and ticker-validator.js: a table of generated tickers *)
(* that the validator fills in                                               *)

runnerVars == <<dbRunner, provider, jsonRunner, checkpointFile, pc, volatile, exitCode,
                outcome, runs>>

\* CREATE TABLE tickers: the column defaults of a row inserted with (ticker, 0)
GeneratedRow == [active |-> 0, price |-> NULL, exchange |-> NULL, last_checked |-> NULL]

\* TickerGenerator.generateTickerCombinations(), cut to the domain checked
generateTickerCombinations == [k \in 1..totalTickers |-> generateTickerByLength(k - 1)]

\* TickerGenerator.insertTickers: INSERT OR IGNORE INTO tickers (ticker, active) VALUES (?, 0)
insertTickers(table, tickers) ==
    [t \in DOMAIN table \cup Elems(tickers) |->
        IF t \in DOMAIN table THEN table[t] ELSE GeneratedRow]

\* TickerValidator.getUnvalidatedTickers: SELECT ticker FROM tickers WHERE active = 0
getUnvalidatedTickers(table) == {t \in DOMAIN table : table[t].active = 0}

\* TickerValidator.validateTicker on the provider's answer for the ticker
TickerValidator_validateTicker(resp) ==
    IF resp.kind = "quote" /\ resp.regularMarketPrice /= NULL
    THEN [active |-> TRUE, price |-> resp.regularMarketPrice,
          exchange |-> OrElse(resp.fullExchangeName, Some(Unknown))]
    ELSE [active |-> FALSE, price |-> NULL, exchange |-> NULL]

\* TickerValidator.updateTicker: UPDATE tickers SET active = ?, price = ?, exchange = ?
updateTicker(table, ticker, validationResult) ==
    IF ticker \in DOMAIN table
    THEN [table EXCEPT ![ticker] =
            [@ EXCEPT !.active = IF validationResult.active THEN 1 ELSE 0,
                      !.price = validationResult.price,
                      !.exchange = validationResult.exchange]]
    ELSE table

IndexOfTicker(ticker) == CHOOSE idx \in Indices : generateTickerByLength(idx) = ticker

\* node ticker-generator.js: initDatabase(), insertTickers(generateTickerCombinations())
GenInsert ==
    /\ tickersTable' = insertTickers(tickersTable, generateTickerCombinations)
    /\ UNCHANGED <<attemptedRows, runnerVars, pureVars, reval, gather, calls, validator, delistedRun, conn>>

\* TickerValidator.processBatch, one ticker of the unvalidated list
GenValidate ==
    /\ \E ticker \in getUnvalidatedTickers(tickersTable) :
         /\ tickersTable' = updateTicker(tickersTable, ticker,
               TickerValidator_validateTicker(yahooQuote(IndexOfTicker(ticker))))
         /\ attemptedRows' = attemptedRows \cup {ticker}
    /\ UNCHANGED <<runnerVars, pureVars, reval, gather, calls, validator, delistedRun, conn>>

GenNext ==
    \/ GenInsert
    \/ GenValidate

SpecGen == Init /\ [][GenNext]_vars

\* C10: a row that was never attempted differs, in what is stored, from a row
\* that a validation found delisted.
NeverAttemptedDistinguishable ==
    \A s \in DOMAIN tickersTable, t \in DOMAIN tickersTable :
        (s \notin attemptedRows /\ t \in attemptedRows /\ tickersTable[t].active = 0)
        => tickersTable[s] /= tickersTable[t]

-----------------------------------------------------------------------------
(* Properties of the file-based runner                                       *)

\* C1: whenever a checkpoint with currentIndex = k is on disk, every index
\* below k has its verdict in the stored ledger (the two JSON files): the
\* checkpoint never reports an index beyond what the ledger holds.
CheckpointNeverAheadOfLedger ==
    checkpointFile /= NoCheckpoint
    => \A idx \in Indices :
          idx < checkpointFile.currentIndex => inFiles(generateTickerByLength(idx))

\* C2: when the run that followed an interruption (crash or signal) has walked
\* to the end of the domain, every index either has a verdict or was visited by
\* this run: no symbol that lacked a verdict at restart was skipped.
NoSymbolSkippedOnResume ==
    (pc = "final" /\ outcome \in {"crash", "signal"})
    => \A idx \in Indices :
          inArrays(generateTickerByLength(idx)) \/ idx \in visited

CompletedMeansFullCoverage ==
    outcome = "completed"
    => \A idx \in Indices : inFiles(generateTickerByLength(idx))

-----------------------------------------------------------------------------
(* The three generateTicker(index) of the scripts, applied to one index      *)

MaxIndex == 720

\* generateTicker(index) of the first index.js: do { result = letters[num % 26] + result;
\* num = Math.floor(num / 26) } while (num > 0)
RECURSIVE doWhileDigits(_, _)
doWhileDigits(res, num) ==
    LET next == letters[(num % 26) + 1] \o res
    IN  IF num \div 26 > 0 THEN doWhileDigits(next, num \div 26) ELSE next

generateTickerDoWhile(index) == doWhileDigits("", index)

\* the scripts that carry a generateTicker(index): Slow-Search.js and the two
\* versions of index.js
SlowSearchJs == "Slow-Search.js"
FirstIndexJs == "index.js (do/while)"
SecondIndexJs == "index.js (by length)"

\* the position of a letter in the alphabet, A = 0
letterValue(ch) == CHOOSE k \in 0..25 : letters[k + 1] = ch

\* the base-26 value of a symbol's letters
RECURSIVE valueOf(_)
valueOf(sym) ==
    IF Len(sym) = 0 THEN 0
    ELSE valueOf(SubSeq(sym, 1, Len(sym) - 1)) * 26
            + letterValue(SubSeq(sym, Len(sym), Len(sym)))

\* the number of symbols shorter than len: 26 + 26^2 + ... + 26^(len - 1)
RECURSIVE shorterSymbols(_)
shorterSymbols(len) == IF len <= 1 THEN 0 ELSE shorterSymbols(len - 1) + 26 ^ (len - 1)

\* indexOf(symbol): the rank of the symbol in the order "shorter first, then
\* alphabetical"; -1 for the empty string
indexOf(sym) == IF Len(sym) = 0 THEN -1 ELSE shorterSymbols(Len(sym)) + valueOf(sym)

\* the symbol a script has returned is kept next to the others
withSymbol(symbols, script, sym) ==
    [sc \in DOMAIN symbols \cup {script} |-> IF sc = script THEN sym ELSE symbols[sc]]

\* Slow-Search.js: generateTicker(enumIndex)
SlowSearchGenerate ==
    /\ SlowSearchJs \notin DOMAIN enumSymbols
    /\ enumSymbols' = withSymbol(enumSymbols, SlowSearchJs, generateTicker(enumIndex))
    /\ UNCHANGED <<enumIndex, runnerVars, gen, reval, gather, calls, validator, delistedRun, conn>>

\* the first index.js: generateTicker(enumIndex)
FirstIndexGenerate ==
    /\ FirstIndexJs \notin DOMAIN enumSymbols
    /\ enumSymbols' = withSymbol(enumSymbols, FirstIndexJs,
                                 generateTickerDoWhile(enumIndex))
    /\ UNCHANGED <<enumIndex, runnerVars, gen, reval, gather, calls, validator, delistedRun, conn>>

\* the second index.js: generateTicker(enumIndex)
SecondIndexGenerate ==
    /\ SecondIndexJs \notin DOMAIN enumSymbols
    /\ enumSymbols' = withSymbol(enumSymbols, SecondIndexJs,
                                 generateTickerByLength(enumIndex))
    /\ UNCHANGED <<enumIndex, runnerVars, gen, reval, gather, calls, validator, delistedRun, conn>>

EnumInit ==
    /\ InitStores
    /\ activeFile = <<>>
    /\ delistedFile = <<>>
    /\ tickersTable = <<>>
    /\ enumIndex \in 0..MaxIndex
    /\ enumSymbols = <<>>

EnumNext ==
    \/ SlowSearchGenerate
    \/ FirstIndexGenerate
    \/ SecondIndexGenerate

SpecEnum == EnumInit /\ [][EnumNext]_vars

\* C11: for every index of the domain, indexOf(symbolAt(index)) = index,
\* whichever script's enumerator produced the symbol.
EnumeratorRoundTrip ==
    \A script \in DOMAIN enumSymbols : indexOf(enumSymbols[script]) = enumIndex

\* C12: symbolAt(0) = "A", symbolAt(25) = "Z", symbolAt(26) = "AA",
\* symbolAt(701) = "ZZ" and symbolAt(702) = "AAA", in every script.
EnumeratorFixedValues ==
    \A script \in DOMAIN enumSymbols :
        /\ enumIndex = 0 => enumSymbols[script] = "A"
        /\ enumIndex = 25 => enumSymbols[script] = "Z"
        /\ enumIndex = 26 => enumSymbols[script] = "AA"
        /\ enumIndex = 701 => enumSymbols[script] = "ZZ"
        /\ enumIndex = 702 => enumSymbols[script] = "AAA"

-----------------------------------------------------------------------------
(* revalidate-active.js (ActiveTickerRevalidator) and revalidate-inactive.js *)
(* (InactiveTickerRevalidator): passes over the tickers table in batches     *)
(* and concurrent chunks                                                     *)

activeConcurrentRequests == 8
inactiveConcurrentRequests == 10
\* this.batchSize, 500 in both scripts, cut to the domain checked
batchSize == 10
freshHours == 24
refreshInterval == 10000
MaxClock == 48
TickHours == 12

DELISTED == <<"D", "E", "L", "I", "S", "T", "E", "D">>
NOT_FOUND == <<"N", "O", "T", "_", "F", "O", "U", "N", "D">>
INACTIVE == <<"I", "N", "A", "C", "T", "I", "V", "E">>
ERROR == <<"E", "R", "R", "O", "R">>

\* a row as the validator left it: active, never stamped with last_checked
ValidatedActiveRow ==
    [active |-> 1, price |-> Some(100), exchange |-> Some(NYSE), last_checked |-> NULL]

\* this.concurrentRequests of the two constructors
concurrentRequests(script) ==
    IF script = "active" THEN activeConcurrentRequests ELSE inactiveConcurrentRequests

\* a chunk as long as the whole batch
wholeBatch(script) == batchSize

\* const chunkSize = this.concurrentRequests
chunkSize(script) == concurrentRequests(script)

\* a wait that ends although promises are pending
anySettled(flight) == TRUE

\* await Promise.allSettled(promises)
allSettled(flight) == flight = {}

\* SELECT ticker ... WHERE active = ? ORDER BY ticker, from index idx on
RECURSIVE tickersFrom(_, _, _)
tickersFrom(idx, table, activeValue) ==
    IF idx >= totalTickers THEN <<>>
    ELSE LET t == generateTicker(idx)
         IN  (IF t \in DOMAIN table /\ table[t].active = activeValue THEN <<t>> ELSE <<>>)
                \o tickersFrom(idx + 1, table, activeValue)

\* ActiveTickerRevalidator.getActiveTickers
getActiveTickers(table) == tickersFrom(0, table, 1)

\* InactiveTickerRevalidator.getInactiveTickers
getInactiveTickers(table) == tickersFrom(0, table, 0)

\* ActiveTickerRevalidator.isTickerRecentlyChecked(ticker, hoursAgo), at time now
isTickerRecentlyChecked(table, ticker, hoursAgo, now) ==
    /\ ticker \in DOMAIN table
    /\ table[ticker].last_checked /= NULL
    /\ now - table[ticker].last_checked[1] < hoursAgo

\* revalidateActiveTickers: the tickers that are not recent are pushed to tickersToCheck
staleTickers(table, now) ==
    SelectSeq(getActiveTickers(table),
              LAMBDA t : ~isTickerRecentlyChecked(table, t, freshHours, now))

\* validateTicker(ticker) of the two revalidators, on the provider's answer
Revalidator_validateTicker(script, ticker, resp) ==
    IF resp.kind = "quote" /\ resp.regularMarketPrice /= NULL
          /\ OrElse(resp.fullExchangeName, NULL) /= NULL
    THEN [ticker |-> ticker, active |-> TRUE, price |-> resp.regularMarketPrice,
          exchange |-> resp.fullExchangeName]
    ELSE IF resp.kind = "quote"
    THEN [ticker |-> ticker, active |-> FALSE, price |-> Some(-1),
          exchange |-> Some(IF script = "active" THEN DELISTED ELSE INACTIVE)]
    ELSE IF resp.kind = "notFound" /\ script = "active"
    THEN [ticker |-> ticker, active |-> FALSE, price |-> Some(-1),
          exchange |-> Some(NOT_FOUND)]
    ELSE [ticker |-> ticker, active |-> FALSE, price |-> Some(-1),
          exchange |-> Some(ERROR)]

\* validateTickersConcurrent(chunk): the results, in the order of the chunk
chunkResultsOf(script, chunk) ==
    [k \in 1..Len(chunk) |->
        Revalidator_validateTicker(script, chunk[k], yahooQuote(IndexOfTicker(chunk[k])))]

\* updateDatabase(tickerResults): UPDATE tickers SET active, price, exchange
\* [, last_checked = CURRENT_TIMESTAMP in revalidate-active] WHERE ticker = ?
updateDatabase(table, script, tickerResults, now) ==
    [t \in DOMAIN table |->
        IF \E k \in 1..Len(tickerResults) : tickerResults[k].ticker = t
        THEN LET r == tickerResults[CHOOSE k \in 1..Len(tickerResults) :
                                        tickerResults[k].ticker = t]
             IN  [active |-> IF r.active THEN 1 ELSE 0,
                  price |-> r.price,
                  exchange |-> r.exchange,
                  last_checked |-> IF script = "active" THEN Some(now)
                                   ELSE table[t].last_checked]
        ELSE table[t]]

\* batch = tickersToCheck.slice(i, i + this.batchSize)
slice(seq, from, len) ==
    SubSeq(seq, from + 1, IF from + len < Len(seq) THEN from + len ELSE Len(seq))

currentBatch == slice(tickersToCheck, batchAt, batchSize)
currentChunk == slice(currentBatch, chunkAt, chunkSize(revScript))

revalFrame == <<runnerVars, pureVars, attemptedRows, gather, calls, validator, delistedRun, conn>>

\* the pass begins with list as its tickers, or returns at once when there are none
BeginPass(script, list) ==
    /\ revPc = "idle"
    /\ passes < MaxRuns
    /\ passes' = passes + 1
    /\ IF Len(list) = 0
       THEN UNCHANGED <<revScript, revPc, tickersToCheck>>
       ELSE /\ revScript' = script
            /\ revPc' = "batch"
            /\ tickersToCheck' = list
    /\ batchAt' = 0
    /\ chunkAt' = 0
    /\ batchResults' = <<>>
    /\ requestCount' = 0
    /\ refreshes' = 0
    /\ UNCHANGED <<clock, inFlight, tickersTable, revalFrame>>

\* node revalidate-active.js: getActiveTickers(), the 24-hour filter
RevalidateActiveStart == BeginPass("active", staleTickers(tickersTable, clock))

\* node revalidate-inactive.js: getInactiveTickers()
RevalidateInactiveStart == BeginPass("inactive", getInactiveTickers(tickersTable))

\* for (i ...): the next batch; refreshSession() first when the count says so
RevalBatchBegin ==
    /\ revPc = "batch"
    /\ batchAt < Len(tickersToCheck)
    /\ refreshes' = IF revScript = "active" /\ requestCount > 0
                        /\ requestCount % refreshInterval = 0
                    THEN refreshes + 1 ELSE refreshes
    /\ chunkAt' = 0
    /\ batchResults' = <<>>
    /\ revPc' = "chunk"
    /\ UNCHANGED <<clock, revScript, tickersToCheck, batchAt, inFlight, requestCount,
                   passes, tickersTable, revalFrame>>

\* validateTickersConcurrent(chunk): tickers.map starts every validateTicker
RevalChunkStart ==
    /\ revPc = "chunk"
    /\ chunkAt < Len(currentBatch)
    /\ inFlight' = inFlight \cup Elems(currentChunk)
    /\ revPc' = "awaiting"
    /\ UNCHANGED <<clock, revScript, tickersToCheck, batchAt, chunkAt, batchResults,
                   requestCount, refreshes, passes, tickersTable, revalFrame>>

\* one pending validateTicker settles
RevalSettle ==
    /\ \E t \in inFlight : inFlight' = inFlight \ {t}
    /\ UNCHANGED <<clock, revScript, revPc, tickersToCheck, batchAt, chunkAt,
                   batchResults, requestCount, refreshes, passes, tickersTable,
                   revalFrame>>

\* Promise.allSettled resolved: batchResults.push(...chunkResults), the delay
RevalChunkCollect ==
    /\ revPc = "awaiting"
    /\ allSettled(inFlight)
    /\ batchResults' = batchResults \o chunkResultsOf(revScript, currentChunk)
    /\ requestCount' = IF revScript = "active" THEN requestCount + Len(currentChunk)
                       ELSE requestCount
    /\ chunkAt' = chunkAt + chunkSize(revScript)
    /\ revPc' = "chunk"
    /\ UNCHANGED <<clock, revScript, tickersToCheck, batchAt, inFlight, refreshes,
                   passes, tickersTable, revalFrame>>

\* every chunk of the batch is done: updateDatabase(batchResults)
RevalUpdateDatabase ==
    /\ revPc = "chunk"
    /\ chunkAt >= Len(currentBatch)
    /\ tickersTable' = updateDatabase(tickersTable, revScript, batchResults, clock)
    /\ batchAt' = batchAt + batchSize
    /\ revPc' = "batch"
    /\ UNCHANGED <<clock, revScript, tickersToCheck, chunkAt, inFlight, batchResults,
                   requestCount, refreshes, passes, revalFrame>>

\* the loop over the batches is over: summary, close()
RevalDone ==
    /\ revPc = "batch"
    /\ batchAt >= Len(tickersToCheck)
    /\ revPc' = "idle"
    /\ revScript' = "none"
    /\ tickersToCheck' = <<>>
    /\ batchAt' = 0
    /\ chunkAt' = 0
    /\ batchResults' = <<>>
    /\ requestCount' = 0
    /\ refreshes' = 0
    /\ UNCHANGED <<clock, inFlight, passes, tickersTable, revalFrame>>

\* time passes, between the passes and between the batches
Tick ==
    /\ revPc \in {"idle", "batch"}
    /\ clock + TickHours <= MaxClock
    /\ clock' = clock + TickHours
    /\ UNCHANGED <<revScript, revPc, tickersToCheck, batchAt, chunkAt, inFlight,
                   batchResults, requestCount, refreshes, passes, tickersTable,
                   revalFrame>>

\* the table after the generator and a validator that found every ticker active
RevalInit ==
    /\ InitStores
    /\ activeFile = <<>>
    /\ delistedFile = <<>>
    /\ tickersTable = [t \in {generateTicker(idx) : idx \in Indices} |-> ValidatedActiveRow]
    /\ enumIndex = 0
    /\ enumSymbols = <<>>

RevalNext ==
    \/ RevalidateActiveStart
    \/ RevalidateInactiveStart
    \/ RevalBatchBegin
    \/ RevalChunkStart
    \/ RevalSettle
    \/ RevalChunkCollect
    \/ RevalUpdateDatabase
    \/ RevalDone
    \/ Tick

SpecReval == RevalInit /\ [][RevalNext]_vars

-----------------------------------------------------------------------------
(* Properties of the revalidation passes                                     *)

\* C13: at every moment at most concurrentRequests validations of the running
\* pass are in flight.
AtMostConcurrentRequestsInFlight ==
    Cardinality(inFlight) <= (IF revScript = "none" THEN 0
                              ELSE concurrentRequests(revScript))

\* a full chunk of revalidate-active is in flight
FullChunkInFlight ==
    revScript = "active" /\ Cardinality(inFlight) = activeConcurrentRequests

\* C14: the validations in flight are those of the current chunk only, and they
\* were started after the results of every earlier chunk of the batch had been
\* collected; outside the wait for a chunk nothing is in flight.
ChunkSettledBeforeNext ==
    /\ revPc = "awaiting"
          => /\ inFlight \subseteq Elems(currentChunk)
             /\ Len(batchResults) = chunkAt
             /\ \A k \in 1..Len(batchResults) : batchResults[k].ticker = currentBatch[k]
    /\ revPc /= "awaiting" => inFlight = {}

\* a second chunk of a batch is in flight, the first one collected
SecondChunkInFlight ==
    revPc = "awaiting" /\ chunkAt > 0 /\ inFlight /= {} /\ Len(batchResults) = chunkAt

\* the tickers a pass of the script looks at
candidates(script, table) ==
    IF script = "active" THEN Elems(getActiveTickers(table))
    ELSE Elems(getInactiveTickers(table))

\* C15: a pass that starts takes an entry into its list of validations if and
\* only if the entry was not checked within the last 24 hours.
FreshSkippedStaleIncluded ==
    [][(revPc = "idle" /\ revPc' = "batch")
        => \A t \in candidates(revScript', tickersTable) :
              t \in Elems(tickersToCheck')
                 <=> ~isTickerRecentlyChecked(tickersTable, t, freshHours, clock)]_vars

\* C16: right after a pass has written the verdicts of a batch, every symbol
\* written counts as checked within the last 24 hours.
WrittenVerdictIsFresh ==
    [][RevalUpdateDatabase
        => \A k \in 1..Len(batchResults) :
              isTickerRecentlyChecked(tickersTable', batchResults[k].ticker,
                                      freshHours, clock)]_vars

-----------------------------------------------------------------------------
(* The gather script (processAllActiveTickers): the active tickers of        *)
(* tickers.db are fetched in batches and stored in ticker_data; a ticker     *)
(* stored within the last 24 hours is skipped, batch by batch                *)

\* const batchSize = 100, scaled
gatherBatchSize == 2

\* the number of full batches that make up one refresh interval (10000 / 100), scaled
RefreshEveryBatches == 2

\* const refreshInterval = 10000, scaled: a multiple of the batch size, as in the script
gatherRefreshInterval == RefreshEveryBatches * gatherBatchSize

INACTIVE_Schema == "INACTIVE_Schema validation error"

\* loadActiveTickers()
loadActiveTickers(table) == tickersFrom(0, table, 1)

\* TickerDataDatabase.isTickerRecentlyChecked(ticker, hoursAgo), at time now
TickerData_isTickerRecentlyChecked(data, ticker, hoursAgo, now) ==
    /\ ticker \in DOMAIN data
    /\ now - data[ticker] < hoursAgo

\* the first pass over the batch: batchNeedsUpdate
batchNeedsUpdate(data, batch, now) ==
    SelectSeq(batch, LAMBDA t : ~TickerData_isTickerRecentlyChecked(data, t, freshHours, now))

\* saveTickerDataToDB(symbol, database), as a function of the provider's response
saveTickerDataToDB(resp) ==
    IF resp.kind = "quote" THEN "saved"
    ELSE IF resp.kind = "schemaUnion" THEN "schema"
    ELSE "failed"

gatherOutcome(ticker) == saveTickerDataToDB(yahooQuote(IndexOfTicker(ticker)))

\* TickerDataDatabase.insertOrUpdateTicker for every saved ticker of the batch
insertOrUpdateTickers(data, tickers, now) ==
    LET saved == {t \in Elems(tickers) : gatherOutcome(t) = "saved"}
    IN  [t \in DOMAIN data \cup saved |-> IF t \in saved THEN now ELSE data[t]]

\* TickerDataDatabase.markTickerInactive for every ticker of the batch with schema issues
markTickersInactive(table, tickers) ==
    [t \in DOMAIN table |->
        IF t \in Elems(tickers) /\ gatherOutcome(t) = "schema"
        THEN [table[t] EXCEPT !.active = 0, !.price = Some(-1),
                              !.exchange = Some(INACTIVE_Schema)]
        ELSE table[t]]

\* the refreshSession() before a batch
refreshDue(count, interval) == count > 0 /\ count % interval = 0

\* node gather: loadActiveTickers(), requestCount = 0
GatherStart == BeginPass("gather", loadActiveTickers(tickersTable))

\* one iteration of the loop over the batches: the refresh check, the first pass,
\* processTickersConcurrent(batchNeedsUpdate) with requestCount++ per ticker
GatherBatch ==
    /\ revPc = "batch"
    /\ revScript = "gather"
    /\ batchAt < Len(tickersToCheck)
    /\ LET batch == slice(tickersToCheck, batchAt, gatherBatchSize)
           needs == batchNeedsUpdate(tickerData, batch, clock)
       IN  /\ refreshes' = IF refreshDue(requestCount, gatherRefreshInterval)
                           THEN refreshes + 1 ELSE refreshes
           /\ requestCount' = requestCount + Len(needs)
           /\ tickerData' = insertOrUpdateTickers(tickerData, needs, clock)
           /\ tickersTable' = markTickersInactive(tickersTable, needs)
    /\ batchAt' = batchAt + gatherBatchSize
    /\ UNCHANGED <<clock, revScript, revPc, tickersToCheck, chunkAt, inFlight,
                   batchResults, passes, runnerVars, pureVars, attemptedRows, calls, validator, delistedRun, conn>>

\* the loop over the batches is over: the summary, database.close()
GatherDone ==
    /\ revScript = "gather"
    /\ RevalDone

GatherNext ==
    \/ GatherStart
    \/ GatherBatch
    \/ GatherDone
    \/ Tick

SpecGather == RevalInit /\ [][GatherNext]_vars

\* C17: when a batch of the gather pass begins, the session has been refreshed
\* once for every full refresh interval of requests counted so far.
RefreshEveryInterval ==
    [][GatherBatch => refreshes' = requestCount \div gatherRefreshInterval]_vars

-----------------------------------------------------------------------------
(* validate-active.js and the writing methods of TickerDatabase: the active  *)
(* tickers of output/tickers.db are validated again, one by one              *)

\* the symbols written in this part of the model: "C" is quoted on the NYSE without a
\* price, "D" fails the schema validation of the provider
LedgerSymbols == {generateTicker(2), generateTicker(3)}

Statuses == {"active", "delisted"}

DetailChoices == {Details(price, exchange) : price \in {NULL, Some(10)},
                                             exchange \in {NULL, Some(NYSE)}}

\* const BATCH_SIZE = 10
BATCH_SIZE == 10

\* validate-active.js validateTicker(ticker), as a function of the provider's response
validateActive_validateTicker(resp) ==
    IF resp.kind = "quote" THEN
        LET exch == OrElse(resp.fullExchangeName,
                           OrElse(resp.exchange, Some(EmptyString)))[1]
            isUS == includes(exch, NYSE) \/ includes(exch, Nasdaq) \/ includes(exch, AMEX)
        IN  IF resp.symbol /\ isUS
            THEN [status |-> "active", exchange |-> Some(exch),
                  price |-> resp.regularMarketPrice]
            ELSE [status |-> "invalid", exchange |-> NULL, price |-> NULL]
    ELSE IF resp.kind = "schemaUnion"
    THEN [status |-> "delisted", exchange |-> NULL, price |-> NULL]
    ELSE [status |-> "invalid", exchange |-> NULL, price |-> NULL]

\* getTickersByStatus(status): the rows, ORDER BY symbol
tickersByStatus(db, status) ==
    SelectSeq([k \in 1..totalTickers |-> generateTicker(k - 1)],
              LAMBDA t : t \in getTickersByStatus(db, status))

\* importFromJSON: the upserts it makes, in order
importCalls(activeData, delistedData) ==
    [k \in 1..Len(activeData) |-> [symbol |-> activeData[k], status |-> "active"]]
        \o [k \in 1..Len(delistedData) |-> [symbol |-> delistedData[k],
                                           status |-> "delisted"]]

\* the database after the first n upserts of importFromJSON
RECURSIVE importUpTo(_, _, _)
importUpTo(db, upserts, n) ==
    IF n = 0 THEN db
    ELSE upsertTicker(importUpTo(db, upserts, n - 1), upserts[n].symbol,
                      upserts[n].status, Details(NULL, NULL))

\* TickerDatabase.importFromJSON()
importFromJSON(db, activeData, delistedData) ==
    LET upserts == importCalls(activeData, delistedData)
    IN  importUpTo(db, upserts, Len(upserts))

\* everything a step of validate-active.js or a direct upsert leaves alone
ledgerFrame == <<dbWritable, outages, validated, provider, jsonRunner, checkpointFile,
                 pc, volatile, exitCode, outcome, runs, gen, pureVars, gather, clock,
                 inFlight, batchResults, requestCount, refreshes, validator, delistedRun>>

\* a component calls db.upsertTicker(symbol, status, details)
LedgerUpsert ==
    /\ revPc = "idle"
    /\ dbWritable
    /\ \E symbol \in LedgerSymbols, status \in Statuses, details \in DetailChoices :
          /\ ledger' = upsertTicker(ledger, symbol, status, details)
          /\ ledgerCall' = Call("upsertTicker", ledger, symbol, status, details)
    /\ UNCHANGED <<revScript, revPc, tickersToCheck, batchAt, chunkAt, passes,
                   connection, ledgerFrame>>

\* node validate-active.js: db.init(), importFromJSON() into an empty database,
\* getTickersByStatus('active'); importFromJSON catches the rejection of its
\* first write and leaves the database as it was
ValidateActiveStart ==
    /\ revPc = "idle"
    /\ passes < MaxRuns
    /\ passes' = passes + 1
    /\ LET upserts == importCalls(activeFile, delistedFile)
           imports == getStats(ledger).total = 0 /\ Len(upserts) > 0 /\ dbWritable
           db == IF imports THEN importFromJSON(ledger, activeFile, delistedFile)
                 ELSE ledger
           list == tickersByStatus(db, "active")
       IN  /\ ledger' = db
           /\ ledgerCall' =
                 IF imports
                 THEN Call("upsertTicker", importUpTo(ledger, upserts, Len(upserts) - 1),
                           upserts[Len(upserts)].symbol, upserts[Len(upserts)].status,
                           Details(NULL, NULL))
                 ELSE ledgerCall
           /\ IF Len(list) = 0
              THEN UNCHANGED <<revScript, revPc, tickersToCheck, connection>>
              ELSE /\ revScript' = "validate-active"
                   /\ revPc' = "batch"
                   /\ tickersToCheck' = list
                   /\ connection' = "open"
    /\ batchAt' = 0
    /\ chunkAt' = 0
    /\ UNCHANGED ledgerFrame

\* one turn of the loop over the batch: validateTicker(ticker), then upsertTicker
\* for an active ticker and moveTickerToStatus(ticker, 'delisted') for any other
ValidateActiveTicker ==
    /\ revPc = "batch"
    /\ revScript = "validate-active"
    /\ batchAt < Len(tickersToCheck)
    /\ dbWritable
    /\ LET batch == slice(tickersToCheck, batchAt, BATCH_SIZE)
           ticker == batch[chunkAt + 1]
           verdict == validateActive_validateTicker(yahooQuote(IndexOfTicker(ticker)))
           details == Details(verdict.price, verdict.exchange)
       IN  /\ IF verdict.status = "active"
              THEN /\ ledger' = upsertTicker(ledger, ticker, "active", details)
                   /\ ledgerCall' = Call("upsertTicker", ledger, ticker, "active", details)
              ELSE /\ ledger' = moveTickerToStatus(ledger, ticker, "delisted",
                                                   Details(NULL, NULL))
                   /\ ledgerCall' = Call("moveTickerToStatus", ledger, ticker,
                                         "delisted", Details(NULL, NULL))
           /\ IF chunkAt + 1 < Len(batch)
              THEN /\ chunkAt' = chunkAt + 1
                   /\ UNCHANGED batchAt
              ELSE /\ chunkAt' = 0
                   /\ batchAt' = batchAt + BATCH_SIZE
    /\ UNCHANGED <<revScript, revPc, tickersToCheck, passes, connection, ledgerFrame>>

\* the write of one turn rejects: the try block of validateActiveList encloses
\* the loop over the batch, so its catch logs "Skipping batch due to error" and
\* the loop over the batches goes on with the next batch
ValidateActiveWriteFails ==
    /\ revPc = "batch"
    /\ revScript = "validate-active"
    /\ batchAt < Len(tickersToCheck)
    /\ ~dbWritable
    /\ chunkAt' = 0
    /\ batchAt' = batchAt + BATCH_SIZE
    /\ UNCHANGED <<ledger, ledgerCall, revScript, revPc, tickersToCheck, passes,
                   connection, ledgerFrame>>

\* TickerDatabase.exportToJSON() on a connection: getTickersByStatus rejects
\* on a closed connection and the files are left as they are
exportToJSON(db, state, files) ==
    IF state = "open"
    THEN [active |-> tickersByStatus(db, "active"),
          delisted |-> tickersByStatus(db, "delisted")]
    ELSE files

\* the loop over the batches is over: finally { await db.close() }
ValidateActiveDone ==
    /\ revScript = "validate-active"
    /\ revPc = "batch"
    /\ batchAt >= Len(tickersToCheck)
    /\ connection' = "closed"
    /\ revPc' = "export"
    /\ UNCHANGED <<ledger, ledgerCall, revScript, tickersToCheck, batchAt, chunkAt,
                   passes, ledgerFrame>>

\* "Final cleanup": await db.exportToJSON(), then the function returns
ValidateActiveExport ==
    /\ revScript = "validate-active"
    /\ revPc = "export"
    /\ LET files == exportToJSON(ledger, connection,
                                 [active |-> activeFile, delisted |-> delistedFile])
       IN  /\ activeFile' = files.active
           /\ delistedFile' = files.delisted
    /\ connection' = "none"
    /\ revPc' = "idle"
    /\ revScript' = "none"
    /\ tickersToCheck' = <<>>
    /\ batchAt' = 0
    /\ chunkAt' = 0
    /\ UNCHANGED <<ledger, ledgerCall, passes, dbWritable, outages, validated, provider,
                   errorFile, activeTickers, delistedTickers, retryIdx, visited,
                   failStreak, replaysInStreak, checkpointFile, pc, volatile, exitCode,
                   outcome, runs, gen, pureVars, gather, clock, inFlight, batchResults,
                   requestCount, refreshes, validator, delistedRun>>

\* output/active_tickers.json as the file-based runner left it
LedgerInit ==
    /\ InitStores
    /\ activeFile = <<generateTicker(2), generateTicker(3)>>
    /\ delistedFile = <<>>
    /\ tickersTable = <<>>
    /\ enumIndex = 0
    /\ enumSymbols = <<>>

LedgerNext ==
    \/ LedgerUpsert
    \/ ValidateActiveStart
    \/ ValidateActiveTicker
    \/ ValidateActiveWriteFails
    \/ ValidateActiveDone
    \/ ValidateActiveExport
    \/ DbStopsWrites
    \/ DbResumesWrites

SpecLedger == LedgerInit /\ [][LedgerNext]_vars

-----------------------------------------------------------------------------
(* Properties of the writing methods of TickerDatabase                       *)

\* symbol TEXT PRIMARY KEY: the rows of the table with this symbol
rowsOf(db, symbol) == {s \in DOMAIN db : s = symbol}

\* C18: after an upsert the database holds exactly one row for the symbol, with the
\* status, price and exchange of that upsert, and the same upsert once more leaves
\* the database as it is.
UpsertKeepsLatestOnce ==
    ledgerCall.op = "upsertTicker" =>
        /\ Cardinality(rowsOf(ledger, ledgerCall.symbol)) = 1
        /\ ledger[ledgerCall.symbol].status = ledgerCall.status
        /\ ledger[ledgerCall.symbol].price = ledgerCall.details.price
        /\ ledger[ledgerCall.symbol].exchange = ledgerCall.details.exchange
        /\ upsertTicker(ledger, ledgerCall.symbol, ledgerCall.status,
                        ledgerCall.details) = ledger

\* an upsert has replaced a row that held another status or another price
UpsertReplacedRow ==
    /\ ledgerCall.op = "upsertTicker"
    /\ ledgerCall.before /= NULL
    /\ ledgerCall.before[1].status /= ledgerCall.status
    /\ ledgerCall.before[1].price /= ledgerCall.details.price
    /\ Cardinality(DOMAIN ledger) = 2

\* the last call rewrote, as delisted and without a price, a row that was active
\* with price 10
DelistedWithoutPrice ==
    /\ ledgerCall.op \in {"upsertTicker", "moveTickerToStatus"}
    /\ ledgerCall.status = "delisted"
    /\ ledgerCall.details.price = NULL
    /\ ledgerCall.before /= NULL
    /\ ledgerCall.before[1].status = "active"
    /\ ledgerCall.before[1].price = Some(10)

\* C19: after a symbol that was active with price 10 is rewritten as delisted
\* without a price, by upsertTicker or by moveTickerToStatus, its row is delisted
\* and holds no price.
DelistingDropsPrice ==
    DelistedWithoutPrice =>
        /\ getTickerDetails(ledger, ledgerCall.symbol) /= NULL
        /\ getTickerDetails(ledger, ledgerCall.symbol)[1].status = "delisted"
        /\ getTickerDetails(ledger, ledgerCall.symbol)[1].price = NULL

\* validate-active.js has moved a ticker that was active with price 10 to delisted
MovedToDelisted ==
    /\ DelistedWithoutPrice
    /\ ledgerCall.op = "moveTickerToStatus"
    /\ revScript = "validate-active"

\* C20: every change of the rows of the database is made by upsertTicker.
OnlyUpsertWrites ==
    [][ledger' /= ledger => ledgerCall'.op = "upsertTicker"]_vars

-----------------------------------------------------------------------------
(* The validators of Slow-Search.js, index.js and validate-active.js as      *)
(* functions of what the provider answers to the successive lookups          *)

NASDAQ == <<"N", "A", "S", "D", "A", "Q">>

ValidateActiveJs == "validate-active.js"

\* the lookups one validation can make at most in the model
MaxLookups == 3

\* the answers of the provider to one lookup
ProviderAnswers ==
    {QuoteResponse(TRUE, full, price) :
        full \in {NULL, Some(NYSE), Some(NasdaqGS), Some(NASDAQ), Some(LSE)},
        price \in {NULL, Some(100)}}
    \cup {[QuoteResponse(TRUE, NULL, Some(100)) EXCEPT !.exchange = Some(NYSE)],
          QuoteResponse(FALSE, NULL, NULL),
          ErrorResponse("schemaUnion"),     \* "... Expected union value ..."
          ErrorResponse("schemaFailed"),    \* "Failed Yahoo Schema validation"
          ErrorResponse("network")}

AnswerSeqs == [1..MaxLookups -> ProviderAnswers]

\* a checkTicker that retries after every error
retriesEveryError(kind) == kind /= "quote"

\* index.js checkTicker: error.message.includes('Expected union value')
retriesInCall(kind) == kind = "schemaUnion"

\* index.js checkTicker(ticker), as a function of the answers to its lookups
RECURSIVE indexJs_checkTicker(_, _)
indexJs_checkTicker(answers, attempt) ==
    IF attempt > 3 THEN
        [isActive |-> FALSE, thrown |-> FALSE, lookups |-> attempt - 1]
    ELSE
        LET quote == answers[attempt]
        IN  IF quote.kind = "quote" THEN
                [isActive |-> quote.symbol, thrown |-> FALSE, lookups |-> attempt]
            ELSE IF retriesInCall(quote.kind) THEN
                indexJs_checkTicker(answers, attempt + 1)
            ELSE
                [isActive |-> FALSE, thrown |-> TRUE, lookups |-> attempt]

\* Slow-Search.js checkTicker(ticker): one lookup, every error caught
slowSearch_checkTicker(answers) ==
    [isActive |-> checkTicker(answers[1]).isActive, thrown |-> FALSE, lookups |-> 1]

\* validate-active.js validateTicker(ticker): one lookup, every error caught
validateActive_checkTicker(answers) ==
    [isActive |-> validateActive_validateTicker(answers[1]).status = "active",
     thrown |-> FALSE, lookups |-> 1]

\* String.prototype.toLowerCase on the letters of the exchange names
toLowerCase(str) ==
    LET lower == [c \in {"A", "D", "E", "L", "M", "N", "Q", "S", "X", "Y", "G"} |->
                    CASE c = "A" -> "a" [] c = "D" -> "d" [] c = "E" -> "e"
                      [] c = "L" -> "l" [] c = "M" -> "m" [] c = "N" -> "n"
                      [] c = "Q" -> "q" [] c = "S" -> "s" [] c = "X" -> "x"
                      [] c = "Y" -> "y" [] OTHER -> "g"]
    IN  [k \in 1..Len(str) |-> IF str[k] \in DOMAIN lower THEN lower[str[k]] ELSE str[k]]

\* the allow-list of recognized exchange-name substrings
AllowList == {NYSE, Nasdaq, AMEX}

\* the venue matches the allow-list under case-insensitive substring matching
matchesAllowList(venue) ==
    \E name \in AllowList : includes(toLowerCase(venue), toLowerCase(name))

\* the response contains a usable market price on a recognized exchange
usableQuote(resp) ==
    /\ resp.kind = "quote"
    /\ resp.regularMarketPrice /= NULL
    /\ matchesAllowList(OrElse(resp.fullExchangeName,
                               OrElse(resp.exchange, Some(EmptyString)))[1])

validateFrame == <<runnerVars, gen, pureVars, reval, gather, calls, delistedRun, conn>>

\* the provider's answers for the symbol that is validated next
ProviderAnswersSymbol ==
    /\ responses = <<>>
    /\ responses' \in AnswerSeqs
    /\ UNCHANGED <<verdicts, validateFrame>>

returns(script, verdict) ==
    /\ responses /= <<>>
    /\ script \notin DOMAIN verdicts
    /\ verdicts' = verdicts @@ (script :> verdict)
    /\ UNCHANGED <<responses, validateFrame>>

SlowSearchCheckTicker == returns(SlowSearchJs, slowSearch_checkTicker(responses))

IndexJsCheckTicker == returns(SecondIndexJs, indexJs_checkTicker(responses, 1))

ValidateActiveCheckTicker ==
    returns(ValidateActiveJs, validateActive_checkTicker(responses))

ValidateNext ==
    \/ ProviderAnswersSymbol
    \/ SlowSearchCheckTicker
    \/ IndexJsCheckTicker
    \/ ValidateActiveCheckTicker

SpecValidate == Init /\ [][ValidateNext]_vars

\* C21: a validator returns Active if and only if the answer it decided on holds
\* a non-null market price and a venue that matches the allow-list under
\* case-insensitive substring matching.
ActiveIffUsableQuote ==
    \A script \in DOMAIN verdicts :
        ~verdicts[script].thrown =>
            (verdicts[script].isActive
                <=> usableQuote(responses[verdicts[script].lookups]))

\* the answers that came before the last lookup of the call
earlierAnswers(verdict) == {responses[n].kind : n \in 1..(verdict.lookups - 1)}

\* C22: one call of a validator makes at most 3 lookups, and a second or third
\* lookup only after the one before failed with a schema-validation error; a
\* network error is not looked up again inside the call.
AtMostThreeLookupsSchemaOnly ==
    \A script \in DOMAIN verdicts :
        /\ verdicts[script].lookups <= 3
        /\ earlierAnswers(verdicts[script]) \subseteq {"schemaUnion", "schemaFailed"}

\* index.js checkTicker got a quote on its third lookup
ThirdLookupAnswered ==
    /\ SecondIndexJs \in DOMAIN verdicts
    /\ verdicts[SecondIndexJs].lookups = 3
    /\ verdicts[SecondIndexJs].isActive
    /\ SlowSearchJs \in DOMAIN verdicts

-----------------------------------------------------------------------------
(* Properties of the loop of Slow-Search.js: counter, startup, checkpoint    *)

\* C23: the consecutive-error counter goes up only in a step whose validation
\* failed at transport level.
CounterCountsTransportFailures ==
    [][consecutiveErrors' > consecutiveErrors => yahooQuote(i).kind = "network"]_vars

unsavedSymbols ==
    Len(activeTickers) + Len(delistedTickers) - Len(activeFile) - Len(delistedFile)

\* C25: while index.js runs, at most 10 classified symbols are not yet in the
\* files that are written together with the checkpoint.
AtMostTenUnsaved ==
    pc \in JsonRunning => unsavedSymbols <= SaveEvery

-----------------------------------------------------------------------------
\* A write to the database that rejects inside the loop over a batch

\* C26: after a write to the Ledger fails for one symbol of a batch, the loop
\* goes on with the next symbol of the same batch, so that the remaining
\* symbols of the batch are still processed
WriteFailureKeepsBatch ==
    [][(ValidateActiveWriteFails
          /\ chunkAt + 1 < Len(slice(tickersToCheck, batchAt, BATCH_SIZE)))
       => (batchAt' = batchAt /\ chunkAt' = chunkAt + 1)]_vars

-----------------------------------------------------------------------------
\* The pass of Slow-Search.js over the indices 0 to 3

ScenarioSymbols == {generateTicker(idx) : idx \in 0..3}

\* main() started on an empty database and has written the rows of "A" to "D":
\* active "A" at 100, active "B" at 55, delisted "C", and "D" whose quote fails
\* the schema validation
ScenarioPassDone ==
    /\ pc = "loop"
    /\ i = 4
    /\ startIndex = 0
    /\ validated = ScenarioSymbols
    /\ DOMAIN ledger = ScenarioSymbols

\* C27: after the pass over the indices 0 to 3, getStats() is
\* {total: 4, active: 2, delisted: 2, validated: 4} and the active symbols are
\* listed as "A", "B" in that order
ScenarioStats ==
    ScenarioPassDone
        => /\ getStats(ledger) = [total |-> 4, active |-> 2, delisted |-> 2,
                                  validated |-> 4]
           /\ tickersByStatus(ledger, "active") = <<"A", "B">>

\* what the pass does establish: the three counts and the order of the list
ScenarioCounts ==
    ScenarioPassDone
        => /\ getStats(ledger) = [total |-> 4, active |-> 2, delisted |-> 2]
           /\ tickersByStatus(ledger, "active") = <<"A", "B">>
           /\ ledger["A"].price = Some(100)
           /\ ledger["D"].status = "delisted"

-----------------------------------------------------------------------------
\* The statistics of the tickers table of ticker-validator.js

\* TickerValidator.getStats: COUNT(*), SUM(active = 1), SUM(active = 0),
\* COUNT(CASE WHEN price IS NOT NULL THEN 1 END)
TickerValidator_getStats(table) ==
    [total |-> Cardinality(DOMAIN table),
     active_count |-> Cardinality({t \in DOMAIN table : table[t].active = 1}),
     inactive_count |-> Cardinality({t \in DOMAIN table : table[t].active = 0}),
     validated_count |-> Cardinality({t \in DOMAIN table : table[t].price /= NULL})]

\* C28: the validated count of the statistics is the number of rows that were
\* checked, active or inactive, and counts no row that was never validated
ValidatedCountsCheckedRows ==
    TickerValidator_getStats(tickersTable).validated_count = Cardinality(attemptedRows)

\* no row that was never validated is counted
ValidatedCountsNoUncheckedRow ==
    \A t \in DOMAIN tickersTable : tickersTable[t].price /= NULL => t \in attemptedRows

-----------------------------------------------------------------------------
\* The size of the domain, and the enumerators beyond it

\* Slow-Search.js: calculateTotalTickers(includeFineLetter)
calculateTotalTickers(includeFineLetter) ==
    LET total == 26 + (26 * 26) + (26 * 26 * 26) + (26 * 26 * 26 * 26)
    IN  IF includeFineLetter THEN total + (26 * 26 * 26 * 26 * 26) ELSE total

\* how many indices past the end of the domain are enumerated
MaxBeyond == 15

\* an index at or past the end of the domain A..ZZZZ
BeyondInit ==
    /\ InitStores
    /\ activeFile = <<>>
    /\ delistedFile = <<>>
    /\ tickersTable = <<>>
    /\ enumIndex \in {calculateTotalTickers(FALSE) + k : k \in 0..MaxBeyond}
    /\ enumSymbols = <<>>

SpecBeyond == BeyondInit /\ [][EnumNext]_vars

\* C29: for an index at or past the size of the domain no enumerator returns
\* a value: the call fails with an out-of-range error
NoSymbolBeyondDomain ==
    enumIndex >= calculateTotalTickers(FALSE) => DOMAIN enumSymbols = {}

\* what the enumerators by length return past the end of the domain
EmptySymbolBeyondDomain ==
    \A script \in DOMAIN enumSymbols \cap {SlowSearchJs, SecondIndexJs} :
        enumSymbols[script] = ""

\* TickerGenerator.generateTickerCombinations() in full: the loop of the
\* 1-letter tickers, then the loop of the 2-letter tickers; the loops of the
\* 3-, 4- and 5-letter tickers are commented out
allTickerCombinations ==
    [k \in 1..Len(letters) |-> letters[k]]
        \o [k \in 1..(Len(letters) * Len(letters)) |->
                letters[((k - 1) \div Len(letters)) + 1]
                    \o letters[((k - 1) % Len(letters)) + 1]]

\* C30: the domain of the lengths 1 to 4 has 475,254 symbols, 12,356,630 with
\* the length 5, and the generate step creates as many tickers as the domain
\* of the lengths 1 to 4 has
GeneratorFillsDomain ==
    /\ calculateTotalTickers(FALSE) = 475254
    /\ calculateTotalTickers(TRUE) = 12356630
    /\ (tickersTable /= <<>>
          => Len(allTickerCombinations) = calculateTotalTickers(FALSE))

\* the two sizes alone
DomainSizes ==
    /\ calculateTotalTickers(FALSE) = 475254
    /\ calculateTotalTickers(TRUE) = 12356630

-----------------------------------------------------------------------------
\* The exit status of a run stopped by the threshold of consecutive errors

\* C31: a run that the threshold of consecutive errors has stopped exits with
\* a status other than 0
FatalStopExitsNonZero ==
    [][(pc = "stopped" /\ SlowFinal) => exitCode' /= Some(0)]_vars

-----------------------------------------------------------------------------
\* The checkpoint file after a walk over the whole domain

\* C32: when a run ends after its loop has walked the whole domain, no
\* checkpoint file of that run remains
CompletionRemovesCheckpoint ==
    [][(pc = "final" /\ SlowFinal) => checkpointFile' = NoCheckpoint]_vars

-----------------------------------------------------------------------------
\* The selection of the unprocessed tickers by a later run of the validator

\* C33: a ticker that was validated, found active or found inactive, is not
\* selected again as unprocessed
ValidatedNotSelectedAgain ==
    \A t \in attemptedRows : t \notin getUnvalidatedTickers(tickersTable)

-----------------------------------------------------------------------------
\* The indices the replay of index.js goes over

\* C34: when the replay that the threshold started at index i is over, it has
\* gone over every index of the failing streak, i included: it began at or
\* before the first of the consecutive failures and went past i
ReplayCoversStreak ==
    [][RetryReplayDone
         => (retryStart(i) <= i - consecutiveErrors + 1 /\ retryIdx > i)]_vars

\* the part that holds: the replay begins at or before the first failure counted
ReplayBeginsBeforeStreak ==
    [][RetryReplayDone => retryStart(i) <= i - consecutiveErrors + 1]_vars

-----------------------------------------------------------------------------
\* The enumerators compared index for index

\* index-db.js generateTickers(): the element at position index of the list
\* that the nested loops push (1 letter, then 2, 3 and 4 letters)
generateTickersAt(index) ==
    IF index < 26 THEN letters[index + 1]
    ELSE IF index < 26 + 676 THEN
        LET n == index - 26
        IN  letters[(n \div 26) + 1] \o letters[(n % 26) + 1]
    ELSE IF index < 26 + 676 + 17576 THEN
        LET n == index - 26 - 676
        IN  letters[(n \div 676) + 1] \o letters[((n \div 26) % 26) + 1]
                \o letters[(n % 26) + 1]
    ELSE
        LET n == index - 26 - 676 - 17576
        IN  letters[(n \div 17576) + 1] \o letters[((n \div 676) % 26) + 1]
                \o letters[((n \div 26) % 26) + 1] \o letters[(n % 26) + 1]

\* BulkTickerGenerator.generateAllTickers(maxLength): the element at position
\* index of generateTickersOfLength(1) followed by ... generateTickersOfLength(maxLength)
RECURSIVE generateAllTickersFrom(_, _, _)
generateAllTickersFrom(length, maxLength, index) ==
    IF length > maxLength THEN ""
    ELSE IF index < 26 ^ length THEN generateTickersOfLength(length, index)
    ELSE generateAllTickersFrom(length + 1, maxLength, index - 26 ^ length)

generateAllTickersAt(maxLength, index) == generateAllTickersFrom(1, maxLength, index)

\* C35: for every index, the symbol each script's generateTicker returns is
\* the element at that index of the list of generateTickers() and of the list
\* of generateAllTickers(4)
EnumeratorsAgree ==
    \A script \in DOMAIN enumSymbols :
        /\ enumSymbols[script] = generateTickersAt(enumIndex)
        /\ enumSymbols[script] = generateAllTickersAt(4, enumIndex)

\* the enumerators by length agree with the two lists
ByLengthEnumeratorsAgree ==
    \A script \in DOMAIN enumSymbols \cap {SlowSearchJs, SecondIndexJs} :
        /\ enumSymbols[script] = generateTickersAt(enumIndex)
        /\ enumSymbols[script] = generateAllTickersAt(4, enumIndex)

-----------------------------------------------------------------------------
\* The processed count of a checkpoint of index.js

\* C36: a checkpoint file holds a processed count equal to the number of
\* symbols with a verdict, active plus delisted, at the moment it was written,
\* the symbols classified during a replay included
CheckpointCountsVerdicts ==
    checkpointFile /= NoCheckpoint
        => checkpointFile.processed
              = checkpointFile.activeTickers + checkpointFile.delistedTickers

-----------------------------------------------------------------------------
(* cleanup-backup/validate-delisted.js: validateDelistedList over the JSON   *)
(* files                                                                     *)

ValidateDelistedJs == "validate-delisted.js"

\* validate-delisted.js validateTicker(ticker), as a function of the provider's response
validateDelisted_validateTicker(resp) ==
    IF resp.kind = "quote" /\ resp.symbol THEN
        LET exch == OrElse(resp.fullExchangeName,
                           OrElse(resp.exchange, Some(EmptyString)))[1]
            isUS == includes(exch, NYSE) \/ includes(exch, Nasdaq) \/ includes(exch, AMEX)
        IN  IF isUS /\ resp.regularMarketPrice /= NULL THEN "active"
            ELSE IF isUS THEN "delisted"
            ELSE "invalid"
    ELSE "delisted"

\* Array.prototype.sort() on tickers of the domain, duplicates removed by new Set
sortedTickers(tickers) ==
    SelectSeq([k \in 1..totalTickers |-> generateTicker(k - 1)],
              LAMBDA t : t \in tickers)

\* the first n symbols of the domain, as an earlier validation left them in a file
firstTickers(n) == [k \in 1..n |-> generateTicker(k - 1)]

delistedFrame == <<ledger, dbWritable, outages, validated, checkpointFile, errorFile,
                   activeTickers, delistedTickers, retryIdx, visited, failStreak,
                   replaysInStreak, provider, pc, volatile, exitCode, outcome, runs,
                   gen, pureVars, gather, calls, validator, clock, inFlight,
                   batchResults, requestCount, refreshes, conn>>

\* node validate-delisted.js: createBackups(), initializeProgress(), the two
\* lists are loaded from delisted_tickers.json and active_tickers.json
ValidateDelistedStart ==
    /\ revPc = "idle"
    /\ passes < MaxRuns
    /\ passes' = passes + 1
    /\ revScript' = ValidateDelistedJs
    /\ revPc' = "batch"
    /\ tickersToCheck' = delistedFile
    /\ originalDelisted' = delistedFile
    /\ existingActive' = activeFile
    /\ nowActive' = <<>>
    /\ stillDelisted' = <<>>
    /\ batchAt' = 0
    /\ chunkAt' = 0
    /\ UNCHANGED <<activeFile, delistedFile, delistedFrame>>

\* one turn of the loop over the batch: validateTicker(ticker), push to
\* progress.nowActive or progress.stillDelisted, saveProgress(progress)
ValidateDelistedTicker ==
    /\ revScript = ValidateDelistedJs
    /\ revPc = "batch"
    /\ batchAt < Len(tickersToCheck)
    /\ LET batch == slice(tickersToCheck, batchAt, BATCH_SIZE)
           ticker == batch[chunkAt + 1]
           status == validateDelisted_validateTicker(yahooQuote(IndexOfTicker(ticker)))
       IN  /\ IF status = "active"
              THEN /\ nowActive' = Append(nowActive, ticker)
                   /\ UNCHANGED stillDelisted
              ELSE /\ stillDelisted' = Append(stillDelisted, ticker)
                   /\ UNCHANGED nowActive
           /\ chunkAt' = chunkAt + 1
           /\ revPc' = IF chunkAt + 1 < Len(batch) THEN "batch" ELSE "files"
    /\ UNCHANGED <<revScript, tickersToCheck, batchAt, passes, existingActive,
                   originalDelisted, activeFile, delistedFile, delistedFrame>>

\* "Update files after each batch": currentActive and currentDelisted are
\* written to active_tickers.json and delisted_tickers.json
ValidateDelistedUpdateFiles ==
    /\ revScript = ValidateDelistedJs
    /\ revPc = "files"
    /\ LET currentActive == sortedTickers(Elems(existingActive) \cup Elems(nowActive))
           currentDelisted == sortedTickers(Elems(stillDelisted))
       IN  /\ activeFile' = currentActive
           /\ delistedFile' = currentDelisted
           /\ stillDelisted' = currentDelisted      \* sort() sorts in place
           /\ existingActive' = currentActive
    /\ batchAt' = batchAt + BATCH_SIZE
    /\ chunkAt' = 0
    /\ revPc' = "batch"
    /\ UNCHANGED <<revScript, tickersToCheck, passes, nowActive, originalDelisted,
                   delistedFrame>>

\* the process of validate-delisted.js is gone: its memory with it
ValidateDelistedEnds ==
    /\ revScript' = "none"
    /\ revPc' = "idle"
    /\ tickersToCheck' = <<>>
    /\ batchAt' = 0
    /\ chunkAt' = 0
    /\ existingActive' = <<>>
    /\ nowActive' = <<>>
    /\ stillDelisted' = <<>>
    /\ UNCHANGED <<passes, originalDelisted, activeFile, delistedFile, delistedFrame>>

\* the loop over the batches is over: the progress file is removed
ValidateDelistedDone ==
    /\ revScript = ValidateDelistedJs
    /\ revPc = "batch"
    /\ batchAt >= Len(tickersToCheck)
    /\ ValidateDelistedEnds

\* process.on('SIGINT' / 'SIGTERM'): process.exit(0), taken at an await of the
\* loop over the batch
ValidateDelistedSignal ==
    /\ revScript = ValidateDelistedJs
    /\ revPc \in {"batch", "files"}
    /\ batchAt < Len(tickersToCheck)
    /\ ValidateDelistedEnds

\* the two files as an earlier validation left them: the first symbols of the
\* domain are delisted, the others active or not yet in a file
DelistedInit ==
    /\ InitStores
    /\ \E n \in 0..totalTickers :
          /\ delistedFile = firstTickers(n)
          /\ activeFile \in {<<>>, SubSeq(firstTickers(totalTickers), n + 1, totalTickers)}
    /\ tickersTable = <<>>
    /\ enumIndex = 0
    /\ enumSymbols = <<>>

DelistedNext ==
    \/ ValidateDelistedStart
    \/ ValidateDelistedTicker
    \/ ValidateDelistedUpdateFiles
    \/ ValidateDelistedDone
    \/ ValidateDelistedSignal

SpecDelisted == DelistedInit /\ [][DelistedNext]_vars

\* C37: at every point of a run of validate-delisted.js, each ticker of the
\* delisted list the run loaded is in delisted_tickers.json or in
\* active_tickers.json
NoTickerLostFromLists ==
    \A t \in Elems(originalDelisted) :
        t \in Elems(delistedFile) \/ t \in Elems(activeFile)

-----------------------------------------------------------------------------
\* The rows the bulk generation writes

-----------------------------------------------------------------------------
\* The final export of validate-active.js and the database connection

\* C39: the final export of validate-active.js reads the database while the
\* connection is open: the export comes before db.close()
ExportBeforeClose ==
    [][ValidateActiveExport => connection = "open"]_vars

\* what the export would leave in the files if it read the database
ExportWritesLedger ==
    [][ValidateActiveExport => activeFile' = tickersByStatus(ledger, "active")]_vars

-----------------------------------------------------------------------------
\* Termination of a run of index.js

\* the steps of main(): each is taken once the awaited call has returned
RetryStep ==
    \/ RetryLoopExit
    \/ RetrySkip
    \/ RetryValidate
    \/ RetryValidateFails
    \/ RetryReplaySkip
    \/ RetryReplayValidate
    \/ RetryReplayDone
    \/ RetrySaveData
    \/ RetrySaveCheckpoint
    \/ RetryFinal

SpecRetryFair == SpecRetry /\ WF_vars(RetryStep)

\* C40: the loop index of a run never goes back and every turn of the loop
\* moves it on, the replay stays between its first index and i, and every run
\* ends, even when every validation fails
RunTerminates ==
    /\ [][(pc \in JsonRunning /\ pc' \in JsonRunning) => i' >= i]_vars
    /\ [][(RetrySkip \/ RetryReplayDone \/ RetrySaveCheckpoint) => i' = i + 1]_vars
    /\ [](pc = "replay" => (retryStart(i) <= retryIdx /\ retryIdx <= i))
    /\ (pc \in JsonRunning) ~> (pc = "idle")

\* a run in which no validation gave a result went through the whole domain
\* and completed
CompletedWithoutAnyResult ==
    /\ pc = "idle"
    /\ outcome = "completed"
    /\ checkpointFile /= NoCheckpoint
    /\ checkpointFile.currentIndex = totalTickers
    /\ checkpointFile.processed = 0
    /\ checkpointFile.activeTickers + checkpointFile.delistedTickers = 0
    /\ providerOutages = 1

\* the steps of main() of Slow-Search.js
SlowStep ==
    \/ SlowLoopExit
    \/ SlowSkip
    \/ SlowCheck
    \/ SlowUpsert
    \/ SlowUpsertFails
    \/ SlowSave
    \/ SlowFinal

SpecSlowFair == SpecSlow /\ WF_vars(SlowStep)

\* the same for Slow-Search.js, whose run ends at the end of the domain or at
\* the threshold of consecutive errors
SlowRunTerminates ==
    /\ [][(pc \in Running /\ pc' \in Running) => i' >= i]_vars
    /\ (pc \in Running) ~> (pc = "idle")
=============================================================================
